---- MODULE Spec2Model ----
(***************************************************************************)
(* Patient-intake slot-filling state machine of PhoneAgentV2.              *)
(*                                                                         *)
(* Two programs share the design: src/agent.py (voice pipeline, tools      *)
(* called by a language model) and src/phone_agent.py (the same tools plus *)
(* a Twilio webhook server).  Each keeps one process-wide patient_info     *)
(* dictionary.  `driver` says which program the process runs.              *)
(*                                                                         *)
(* Python values are modelled as tuples of strings: a str is the tuple of  *)
(* its characters, and None, True and False are the one-element tuples     *)
(* None, PyTrue and PyFalse, whose single element is no character.         *)
(***************************************************************************)
EXTENDS Integers, Sequences, FiniteSets, TLC

VARIABLES
    driver,        \* "agent" (src/agent.py), "phone" (tools of src/phone_agent.py),
                   \* "webhook" (FastAPI server of src/phone_agent.py)
    patient_info,  \* the module-level dictionary
    last,          \* the last invocation: operation, arguments, returned value
    step,          \* position of a caller that follows the agent instructions in order
    line,          \* what the telephony platform does next in the call being served
    ncalls,        \* calls the webhook server has answered
    conv,          \* the call being served
    parked,        \* what the platform does next in each call not being served
    heard,         \* the name given so far in each call
    nswitch,       \* times the server turned from one call to another
    tasks          \* tool coroutines started and not yet finished, with where each waits

vars ==
    <<driver, patient_info, last, step, line, ncalls, conv, parked, heard, nswitch, tasks>>

-----------------------------------------------------------------------------
(* Python values *)

None == <<"None">>
PyTrue == <<"True">>
PyFalse == <<"False">>
PyBool(b) == IF b THEN PyTrue ELSE PyFalse
EmptyStr == <<>>

\* Python truthiness of an Optional[str]: None and "" are falsy.
Truthy(v) == v # None /\ v # EmptyStr

\* `v or ""`
OrEmpty(v) == IF Truthy(v) THEN v ELSE EmptyStr

-----------------------------------------------------------------------------
(* str methods used by the handlers *)

DigitChars == {"0", "1", "2", "3", "4", "5", "6", "7", "8", "9"}
SpaceChars == {" ", "\t", "\n"}

UpperToLower ==
    [c \in {"A","B","C","D","E","F","G","H","I","J","K","L","M",
            "N","O","P","Q","R","S","T","U","V","W","X","Y","Z"} |->
        CASE c = "A" -> "a" [] c = "B" -> "b" [] c = "C" -> "c" [] c = "D" -> "d"
          [] c = "E" -> "e" [] c = "F" -> "f" [] c = "G" -> "g" [] c = "H" -> "h"
          [] c = "I" -> "i" [] c = "J" -> "j" [] c = "K" -> "k" [] c = "L" -> "l"
          [] c = "M" -> "m" [] c = "N" -> "n" [] c = "O" -> "o" [] c = "P" -> "p"
          [] c = "Q" -> "q" [] c = "R" -> "r" [] c = "S" -> "s" [] c = "T" -> "t"
          [] c = "U" -> "u" [] c = "V" -> "v" [] c = "W" -> "w" [] c = "X" -> "x"
          [] c = "Y" -> "y" [] c = "Z" -> "z"]

\* str.lower()
Lower(s) ==
    [i \in 1..Len(s) |-> IF s[i] \in DOMAIN UpperToLower THEN UpperToLower[s[i]] ELSE s[i]]

\* str.strip()
Strip(s) ==
    LET keep == {i \in 1..Len(s) : s[i] \notin SpaceChars}
    IN  IF keep = {} THEN EmptyStr
        ELSE SubSeq(s, CHOOSE i \in keep : \A j \in keep : i <= j,
                       CHOOSE i \in keep : \A j \in keep : j <= i)

\* `w in s` for strings
Contains(s, w) ==
    \E i \in 1..(Len(s) - Len(w) + 1) : SubSeq(s, i, i + Len(w) - 1) = w

\* any(char.isdigit() for char in s)
AnyDigit(s) == \E i \in 1..Len(s) : s[i] \in DigitChars

\* str.isdigit()
IsDigitStr(w) == Len(w) > 0 /\ \A i \in 1..Len(w) : w[i] \in DigitChars

\* str.split(): the maximal runs of non-whitespace characters, in order
RECURSIVE SplitFrom(_, _, _)
SplitFrom(s, i, cur) ==
    IF i > Len(s) THEN (IF cur = <<>> THEN <<>> ELSE <<cur>>)
    ELSE IF s[i] \in SpaceChars
         THEN (IF cur = <<>> THEN <<>> ELSE <<cur>>) \o SplitFrom(s, i + 1, <<>>)
         ELSE SplitFrom(s, i + 1, Append(cur, s[i]))

Split(s) == SplitFrom(s, 1, <<>>)

\* str.split(sep) for a one-character separator: empty pieces are kept
RECURSIVE SplitOnFrom(_, _, _, _)
SplitOnFrom(s, sep, i, cur) ==
    IF i > Len(s) THEN <<cur>>
    ELSE IF s[i] = sep
         THEN <<cur>> \o SplitOnFrom(s, sep, i + 1, <<>>)
         ELSE SplitOnFrom(s, sep, i + 1, Append(cur, s[i]))

SplitOn(s, sep) == SplitOnFrom(s, sep, 1, <<>>)

-----------------------------------------------------------------------------
(* Texts the callers supply *)

JaneDoe == \* "Jane Doe"
    <<"J", "a", "n", "e", " ", "D", "o", "e">>
JoRoe == \* "Jo Roe"
    <<"J", "o", " ", "R", "o", "e">>
Dob1 == \* "01/02/1990"
    <<"0", "1", "/", "0", "2", "/", "1", "9", "9", "0">>
Payer1 == \* "Acme"
    <<"A", "c", "m", "e">>
MemberId1 == \* "AH123"
    <<"A", "H", "1", "2", "3">>
Physician1 == \* "Lee"
    <<"L", "e", "e">>
Complaint1 == \* "back pain"
    <<"b", "a", "c", "k", " ", "p", "a", "i", "n">>
Phone1 == \* "555-1234"
    <<"5", "5", "5", "-", "1", "2", "3", "4">>
Email1 == \* "Al@x.io"
    <<"A", "l", "@", "x", ".", "i", "o">>
AddrSpringfield == \* "123 Main St, Springfield, IL, 62704"
    <<"1", "2", "3", " ", "M", "a", "i", "n", " ", "S", "t", ",", " ", "S", "p", "r",
      "i", "n", "g", "f", "i", "e", "l", "d", ",", " ", "I", "L", ",", " ",
      "6", "2", "7", "0", "4">>
AddrMainSt == \* "Main St"
    <<"M", "a", "i", "n", " ", "S", "t">>
AddrElm == \* "1 Elm St, Boston, MA, 02108"
    <<"1", " ", "E", "l", "m", " ", "S", "t", ",", " ", "B", "o", "s", "t", "o", "n",
      ",", " ", "M", "A", ",", " ", "0", "2", "1", "0", "8">>
AddrNoComma == \* "12 Oak Street Dallas Texas"
    <<"1", "2", " ", "O", "a", "k", " ", "S", "t", "r", "e", "e", "t", " ",
      "D", "a", "l", "l", "a", "s", " ", "T", "e", "x", "a", "s">>

CallerId == \* "+1555"
    <<"+", "1", "5", "5", "5">>
Digits1 == \* "5551234"
    <<"5", "5", "5", "1", "2", "3", "4">>
SayYes == \* "Yes"
    <<"Y", "e", "s">>
SayNo == \* "No"
    <<"N", "o">>

Names == {JaneDoe, JoRoe}
Dobs == {Dob1}
Payers == {Payer1}
MemberIds == {MemberId1}
Physicians == {Physician1}
Complaints == {Complaint1}
Addresses == {AddrSpringfield, AddrMainSt, AddrElm, AddrNoComma}
Phones == {Phone1}
Emails == {Email1}

\* What a speech gather can post: one of the texts, or nothing intelligible.
Heard(texts) == texts \cup {EmptyStr}

\* What a keypad gather can post.
Keyed == {Digits1}

\* How many consecutive identical submissions of one address `last` tells apart.
MaxRepeat == 3

\* How many calls the webhook server answers.
MaxCalls == 2

\* Calls the telephony platform may have open at once.
MaxOpen == 2
Calls == 1..MaxOpen

\* Times the server turns from one open call to another.
MaxSwitch == 2

-----------------------------------------------------------------------------
(* Address Validator, src/agent.py *)

agent_states ==
    << <<"a","l">>, <<"a","k">>, <<"a","z">>, <<"a","r">>, <<"c","a">>,
       <<"c","o">>, <<"c","t">>, <<"d","e">>, <<"f","l">>, <<"g","a">>,
       <<"a","l","a","b","a","m","a">>, <<"a","l","a","s","k","a">>,
       <<"a","r","i","z","o","n","a">>,
       <<"c","a","l","i","f","o","r","n","i","a">>,
       <<"c","o","l","o","r","a","d","o">>, <<"f","l","o","r","i","d","a">>,
       <<"n","y">>, <<"n","e","w"," ","y","o","r","k">>, <<"t","x">>,
       <<"t","e","x","a","s">>, <<"i","l">>,
       <<"i","l","l","i","n","o","i","s">> >>

agent_has_numbers(address) == AnyDigit(address)

agent_has_state(address) ==
    \E k \in 1..Len(agent_states) : Contains(Lower(address), agent_states[k])

agent_has_zip(address) ==
    LET words == Split(address)
    IN  \E k \in 1..Len(words) : IsDigitStr(words[k]) /\ Len(words[k]) = 5

agent_has_city(address) == Len(SplitOn(address, ",")) >= 2

StreetNumber == "street number"
City == "city"
State == "state"
ZipCode == "ZIP code"

agent_missing_fields(address) ==
    (IF ~agent_has_numbers(address) THEN <<StreetNumber>> ELSE <<>>)
    \o (IF ~agent_has_city(address) THEN <<City>> ELSE <<>>)
    \o (IF ~agent_has_state(address) THEN <<State>> ELSE <<>>)
    \o (IF ~agent_has_zip(address) THEN <<ZipCode>> ELSE <<>>)

agent_validate_address(address) ==
    LET missing_fields == agent_missing_fields(address)
        is_valid == Len(missing_fields) = 0
    IN  [valid |-> is_valid,
         missing_fields |-> missing_fields,
         formatted_address |-> IF is_valid THEN address ELSE None,
         message |-> IF is_valid
                     THEN [text |-> "Address is valid", fields |-> <<>>]
                     ELSE [text |-> "Address is missing: {', '.join(missing_fields)}",
                           fields |-> missing_fields]]

-----------------------------------------------------------------------------
(* Address Validator, src/phone_agent.py *)

phone_has_numbers(address) == AnyDigit(address)
phone_has_comma(address) == Contains(address, <<",">>)
phone_word_count(address) == Len(Split(address))

CompleteAddress == "complete address (street, city, state, ZIP)"

phone_missing(address) ==
    (IF ~phone_has_numbers(address) THEN <<StreetNumber>> ELSE <<>>)
    \o (IF phone_word_count(address) < 4 THEN <<CompleteAddress>> ELSE <<>>)

\* A laxer policy: the comma is not asked for.
phone_validate_address_without_comma(address) ==
    IF phone_has_numbers(address) /\ phone_word_count(address) >= 4
    THEN [valid |-> TRUE,
          message |-> [text |-> "Address appears valid", fields |-> <<>>],
          formatted_address |-> address]
    ELSE [valid |-> FALSE,
          message |-> [text |-> "Address is missing: {', '.join(missing)}",
                       fields |-> phone_missing(address)],
          formatted_address |-> None]

phone_validate_address(address) ==
    IF phone_has_numbers(address) /\ phone_has_comma(address)
       /\ phone_word_count(address) >= 4
    THEN [valid |-> TRUE,
          message |-> [text |-> "Address appears valid", fields |-> <<>>],
          formatted_address |-> address]
    ELSE [valid |-> FALSE,
          message |-> [text |-> "Address is missing: {', '.join(missing)}",
                       fields |-> phone_missing(address)],
          formatted_address |-> None]

\* The verdicts on the addresses the callers submit, computed once each.
agent_validation_result == [a \in Addresses |-> agent_validate_address(a)]
phone_validation_result == [a \in Addresses |-> phone_validate_address(a)]

-----------------------------------------------------------------------------
(* Patient Record *)

InitialRecord ==
    [name |-> None,
     date_of_birth |-> None,
     insurance_payer |-> None,
     insurance_id |-> None,
     has_referral |-> None,
     referral_physician |-> None,
     chief_complaint |-> None,
     address |-> None,
     address_valid |-> PyFalse,
     phone |-> None,
     email |-> None,
     stage |-> "greeting"]

\* What a tool returns: the message template and the values put into it.
Returned(text, data) == [text |-> text, data |-> data]

\* The record of an invocation.  dispatch lists the calls of
\* send_patient_info_email it made (none unless Dispatching says so); n counts consecutive identical submissions
\* of one address (saturating at MaxRepeat) and is 1 for anything else.
Called(op, args, result) ==
    [op |-> op, args |-> args, result |-> result, dispatch |-> <<>>,
     n |-> IF op = "store_and_validate_address" /\ last.op = op /\ last.args = args
           THEN (IF last.n < MaxRepeat THEN last.n + 1 ELSE MaxRepeat)
           ELSE 1]

\* send_patient_info_email(patient_data): True when the message was handed to
\* the mail server, False when anything on the way raised; the exception is
\* caught inside and never leaves the function.
send_patient_info_email == {PyTrue, PyFalse}

\* An invocation that called send_patient_info_email once, with what it passed
\* and what came back.
Dispatching(call, patient_data, returned) ==
    [call EXCEPT !.dispatch = <<[patient_data |-> patient_data, returned |-> returned]>>]

\* json.dumps of one value of the record
JsonValue(v) ==
    IF v = None THEN <<"n","u","l","l">>
    ELSE IF v = PyTrue THEN <<"t","r","u","e">>
    ELSE IF v = PyFalse THEN <<"f","a","l","s","e">>
    ELSE <<"\"">> \o v \o <<"\"">>

\* json.dumps(patient_info): the keys in place, each with its JSON value
json_dumps(d) ==
    [k \in DOMAIN d |->
        IF k = "stage" THEN <<"\"", d[k], "\"">>
        ELSE IF k = "appointment"
        THEN <<"{">> \o JsonValue(d[k].date) \o JsonValue(d[k].time)
                     \o JsonValue(d[k].doctor) \o <<"}">>
        ELSE JsonValue(d[k])]

-----------------------------------------------------------------------------
(* Tools of src/agent.py *)

agent_store_patient_name(name) ==
    /\ driver = "agent"
    /\ patient_info' = [patient_info EXCEPT !.name = name, !.stage = "dob"]
    /\ last' = Called("store_patient_name", <<name>>,
                      Returned("Thank you, {name}. I have recorded your name.", <<name>>))
    /\ UNCHANGED <<driver, line, ncalls>>

\* A slip: the stage named is the one before, not the one after.
agent_store_date_of_birth_names_earlier_stage(date_of_birth) ==
    /\ driver = "agent"
    /\ patient_info' = [patient_info EXCEPT !.date_of_birth = date_of_birth,
                                            !.stage = "name"]
    /\ last' = Called("store_date_of_birth", <<date_of_birth>>,
                      Returned("Date of birth recorded. Now let's collect your insurance information.", <<>>))
    /\ UNCHANGED <<driver, line, ncalls>>

agent_store_date_of_birth(date_of_birth) ==
    /\ driver = "agent"
    /\ patient_info' = [patient_info EXCEPT !.date_of_birth = date_of_birth,
                                            !.stage = "insurance"]
    /\ last' = Called("store_date_of_birth", <<date_of_birth>>,
                      Returned("Date of birth recorded. Now let's collect your insurance information.", <<>>))
    /\ UNCHANGED <<driver, line, ncalls>>

\* A slip: the member id is not stored.
agent_store_insurance_drops_id(payer_name, insurance_id) ==
    /\ driver = "agent"
    /\ patient_info' = [patient_info EXCEPT !.insurance_payer = payer_name,
                                            !.stage = "referral"]
    /\ last' = Called("store_insurance", <<payer_name, insurance_id>>,
                      Returned("Insurance information saved.", <<>>))
    /\ UNCHANGED <<driver, line, ncalls>>

agent_store_insurance(payer_name, insurance_id) ==
    /\ driver = "agent"
    /\ patient_info' = [patient_info EXCEPT !.insurance_payer = payer_name,
                                            !.insurance_id = insurance_id,
                                            !.stage = "referral"]
    /\ last' = Called("store_insurance", <<payer_name, insurance_id>>,
                      Returned("Insurance information saved.", <<>>))
    /\ UNCHANGED <<driver, line, ncalls>>

agent_store_referral_info(has_referral, physician_name) ==
    /\ driver = "agent"
    /\ patient_info' = [patient_info EXCEPT
                            !.has_referral = PyBool(has_referral),
                            !.referral_physician =
                                IF has_referral THEN physician_name ELSE None,
                            !.stage = "complaint"]
    /\ last' = Called("store_referral_info", <<PyBool(has_referral), physician_name>>,
                      Returned("Referral information recorded.", <<>>))
    /\ UNCHANGED <<driver, line, ncalls>>

\* A strict guard: the stage moves on only from the complaint step.
agent_store_chief_complaint_guarded(complaint) ==
    /\ driver = "agent"
    /\ patient_info' = [patient_info EXCEPT
                            !.chief_complaint = complaint,
                            !.stage = IF @ = "complaint" THEN "address" ELSE @]
    /\ last' = Called("store_chief_complaint", <<complaint>>,
                      Returned("Chief complaint recorded. Now I need your address.", <<>>))
    /\ UNCHANGED <<driver, line, ncalls>>

agent_store_chief_complaint(complaint) ==
    /\ driver = "agent"
    /\ patient_info' = [patient_info EXCEPT !.chief_complaint = complaint,
                                            !.stage = "address"]
    /\ last' = Called("store_chief_complaint", <<complaint>>,
                      Returned("Chief complaint recorded. Now I need your address.", <<>>))
    /\ UNCHANGED <<driver, line, ncalls>>

\* A retry bound: the same rejected address submitted again is let through.
agent_store_and_validate_address_gives_up(address) ==
    LET validation_result == agent_validation_result[address]
        again == last.op = "store_and_validate_address" /\ last.args = <<address>>
    IN  /\ driver = "agent"
        /\ patient_info' =
              [patient_info EXCEPT
                  !.address = address,
                  !.address_valid = PyBool(validation_result.valid),
                  !.stage = IF validation_result.valid \/ again THEN "contact" ELSE @]
        /\ last' = Called("store_and_validate_address", <<address>>,
                          IF validation_result.valid
                          THEN Returned("Address verified and saved.", <<>>)
                          ELSE Returned("I'm sorry, but the address appears to be incomplete or invalid. {message}. Please provide the complete address.",
                                        validation_result.message.fields))
        /\ UNCHANGED <<driver, line, ncalls>>

agent_store_and_validate_address(address) ==
    LET validation_result == agent_validation_result[address]
    IN  /\ driver = "agent"
        /\ patient_info' =
              [patient_info EXCEPT
                  !.address = address,
                  !.address_valid = PyBool(validation_result.valid),
                  !.stage = IF validation_result.valid THEN "contact" ELSE @]
        /\ last' = Called("store_and_validate_address", <<address>>,
                          IF validation_result.valid
                          THEN Returned("Address verified and saved.", <<>>)
                          ELSE Returned("I'm sorry, but the address appears to be incomplete or invalid. {message}. Please provide the complete address.",
                                        validation_result.message.fields))
        /\ UNCHANGED <<driver, line, ncalls>>

agent_store_contact_info(phone, email) ==
    /\ driver = "agent"
    /\ patient_info' = [patient_info EXCEPT !.phone = phone, !.email = email,
                                            !.stage = "scheduling"]
    /\ last' = Called("store_contact_info", <<phone, email>>,
                      Returned("Contact information saved. Now let me find available appointment times for you.", <<>>))
    /\ UNCHANGED <<driver, line, ncalls>>

\* A slip: the summary is that of the record as created.
agent_get_patient_summary_stale ==
    /\ driver = "agent"
    /\ last' = Called("get_patient_summary", <<>>,
                      Returned("{json}", json_dumps(InitialRecord)))
    /\ UNCHANGED <<driver, patient_info, line, ncalls>>

agent_get_patient_summary ==
    /\ driver = "agent"
    /\ last' = Called("get_patient_summary", <<>>,
                      Returned("{json}", json_dumps(patient_info)))
    /\ UNCHANGED <<driver, patient_info, line, ncalls>>

\* The provider roster; get_available_appointments samples two of the four
\* without replacement and lists two times for each.
AVAILABLE_PROVIDERS ==
    <<"Dr. Sarah Johnson", "Dr. Michael Chen", "Dr. Emily Rodriguez", "Dr. James Williams">>

\* What random.randint(1, 7), random.choice([9, 10, 11, 14, 15, 16]) and
\* random.choice([0, 30]) can return.
DayOffsets == 1..7
Hours == {9, 10, 11, 14, 15, 16}
Minutes == {0, 30}

\* A datetime, as the number of days its date lies after today's and the time
\* of day.  base_date is now + 1 day; a slot is base_date + day_offset days
\* with the hour and the minute replaced.
base_date == 1
Slots(offsets, hours, minutes) ==
    {[day |-> base_date + day_offset, hour |-> hour, minute |-> minute] :
        day_offset \in offsets, hour \in hours, minute \in minutes}

\* The order of datetimes.
Stamp(t) == (t.day * 24 + t.hour) * 60 + t.minute

\* generate_available_times(num_slots) with each slot drawn from `draws`:
\* what sorted(times) can be.
generate_available_times(num_slots, draws) ==
    {times \in [1..num_slots -> draws] :
        \A k \in 1..(num_slots - 1) : Stamp(times[k]) <= Stamp(times[k + 1])}

\* time.strftime("%A, %B %d at %I:%M %p"): the date (weekday, month and day
\* of the month, no year) and the time on the 12-hour clock.
strftime(t) ==
    [date |-> t.day,
     I |-> IF t.hour > 12 THEN t.hour - 12 ELSE IF t.hour = 0 THEN 12 ELSE t.hour,
     M |-> t.minute,
     p |-> IF t.hour >= 12 THEN "PM" ELSE "AM"]

\* A slip: the providers are drawn with replacement.
agent_get_available_appointments_from_choices(draws) ==
    /\ driver = "agent"
    /\ \E i, j \in 1..Len(AVAILABLE_PROVIDERS) :
          \E times1, times2 \in generate_available_times(2, draws) :
             LET selected_providers == <<AVAILABLE_PROVIDERS[i], AVAILABLE_PROVIDERS[j]>>
                 appointments ==
                     << [provider |-> selected_providers[1], datetime |-> strftime(times1[1])],
                        [provider |-> selected_providers[1], datetime |-> strftime(times1[2])],
                        [provider |-> selected_providers[2], datetime |-> strftime(times2[1])],
                        [provider |-> selected_providers[2], datetime |-> strftime(times2[2])] >>
             IN  last' = Called("get_available_appointments", <<>>,
                                Returned("Here are the available appointments:", appointments))
    /\ patient_info' = [patient_info EXCEPT !.stage = "complete"]
    /\ UNCHANGED <<driver, line, ncalls>>

\* get_available_appointments, every slot drawn from `draws`.
agent_get_available_appointments_from(draws) ==
    /\ driver = "agent"
    /\ \E i, j \in 1..Len(AVAILABLE_PROVIDERS) :
          /\ i # j
          /\ \E times1, times2 \in generate_available_times(2, draws) :
                LET selected_providers == <<AVAILABLE_PROVIDERS[i], AVAILABLE_PROVIDERS[j]>>
                    appointments ==
                        << [provider |-> selected_providers[1], datetime |-> strftime(times1[1])],
                           [provider |-> selected_providers[1], datetime |-> strftime(times1[2])],
                           [provider |-> selected_providers[2], datetime |-> strftime(times2[1])],
                           [provider |-> selected_providers[2], datetime |-> strftime(times2[2])] >>
                IN  last' = Called("get_available_appointments", <<>>,
                                   Returned("Here are the available appointments:", appointments))
    /\ patient_info' = [patient_info EXCEPT !.stage = "complete"]
    /\ UNCHANGED <<driver, line, ncalls>>

\* In an intake the draw is one fixed slot; the generator is run over more
\* draws on its own (SpecSlots).
agent_get_available_appointments ==
    agent_get_available_appointments_from(Slots({1}, {9}, {0}))

\* A session starts: the record is the module-level one and is not touched.
agent_entrypoint ==
    /\ driver = "agent"
    /\ last' = Called("entrypoint", <<>>, Returned("Hello! Thank you for calling.", <<>>))
    /\ UNCHANGED <<driver, patient_info, line, ncalls>>

-----------------------------------------------------------------------------
(* Tools of src/phone_agent.py *)

phone_store_patient_name(name) ==
    /\ driver = "phone"
    /\ patient_info' = [patient_info EXCEPT !.name = name, !.stage = "dob"]
    /\ last' = Called("store_patient_name", <<name>>,
                      Returned("Stored name: {name}", <<name>>))
    /\ UNCHANGED <<driver, line, ncalls>>

phone_store_date_of_birth(date_of_birth) ==
    /\ driver = "phone"
    /\ patient_info' = [patient_info EXCEPT !.date_of_birth = date_of_birth,
                                            !.stage = "insurance"]
    /\ last' = Called("store_date_of_birth", <<date_of_birth>>,
                      Returned("Stored date of birth: {date_of_birth}", <<date_of_birth>>))
    /\ UNCHANGED <<driver, line, ncalls>>

phone_store_insurance(payer_name, insurance_id) ==
    /\ driver = "phone"
    /\ patient_info' = [patient_info EXCEPT !.insurance_payer = payer_name,
                                            !.insurance_id = insurance_id,
                                            !.stage = "referral"]
    /\ last' = Called("store_insurance", <<payer_name, insurance_id>>,
                      Returned("Stored insurance: {payer_name}, ID: {insurance_id}",
                               <<payer_name, insurance_id>>))
    /\ UNCHANGED <<driver, line, ncalls>>

phone_store_referral_info(has_referral, physician_name) ==
    /\ driver = "phone"
    /\ patient_info' = [patient_info EXCEPT
                            !.has_referral = PyBool(has_referral),
                            !.referral_physician = OrEmpty(physician_name),
                            !.stage = "complaint"]
    /\ last' = Called("store_referral_info", <<PyBool(has_referral), physician_name>>,
                      IF has_referral /\ Truthy(physician_name)
                      THEN Returned("Stored referral from Dr. {physician_name}",
                                    <<physician_name>>)
                      ELSE Returned("Noted: No referral", <<>>))
    /\ UNCHANGED <<driver, line, ncalls>>

phone_store_chief_complaint(complaint) ==
    /\ driver = "phone"
    /\ patient_info' = [patient_info EXCEPT !.chief_complaint = complaint,
                                            !.stage = "address"]
    /\ last' = Called("store_chief_complaint", <<complaint>>,
                      Returned("Stored chief complaint: {complaint}", <<complaint>>))
    /\ UNCHANGED <<driver, line, ncalls>>

\* A hardening that breaks the permissive contract: the stage moves on only
\* from the address step.
phone_store_and_validate_address_guarded(address) ==
    LET validation_result == phone_validation_result[address]
    IN  /\ driver = "phone"
        /\ patient_info' =
              [patient_info EXCEPT
                  !.address = address,
                  !.address_valid = PyBool(validation_result.valid),
                  !.stage = IF validation_result.valid /\ @ = "address"
                            THEN "contact" ELSE @]
        /\ last' = Called("store_and_validate_address", <<address>>,
                          IF validation_result.valid
                          THEN Returned("Address validated: {formatted_address}",
                                        <<validation_result.formatted_address>>)
                          ELSE Returned("Address validation failed: {message}. Please provide the complete address.",
                                        validation_result.message.fields))
        /\ UNCHANGED <<driver, line, ncalls>>

phone_store_and_validate_address(address) ==
    LET validation_result == phone_validation_result[address]
    IN  /\ driver = "phone"
        /\ patient_info' =
              [patient_info EXCEPT
                  !.address = address,
                  !.address_valid = PyBool(validation_result.valid),
                  !.stage = IF validation_result.valid THEN "contact" ELSE @]
        /\ last' = Called("store_and_validate_address", <<address>>,
                          IF validation_result.valid
                          THEN Returned("Address validated: {formatted_address}",
                                        <<validation_result.formatted_address>>)
                          ELSE Returned("Address validation failed: {message}. Please provide the complete address.",
                                        validation_result.message.fields))
        /\ UNCHANGED <<driver, line, ncalls>>

phone_store_contact_info(phone, email) ==
    /\ driver = "phone"
    /\ patient_info' = [patient_info EXCEPT !.phone = phone, !.email = OrEmpty(email),
                                            !.stage = "appointments"]
    /\ last' = Called("store_contact_info", <<phone, email>>,
                      IF Truthy(email)
                      THEN Returned("Stored contact info - Phone: {phone}, Email: {email}",
                                    <<phone, email>>)
                      ELSE Returned("Stored phone number: {phone}", <<phone>>))
    /\ UNCHANGED <<driver, line, ncalls>>

\* generate_appointments lists three slots; send_patient_info_email returns
\* True, or False when anything in it raised.
InformationSent == "Your information has been sent to our scheduling team. They will contact you shortly to confirm your appointment."
IssueSending == "There was an issue sending your information. Please call our office directly to complete your appointment booking."

\* A stricter tool: when the mail cannot be sent the intake is not completed
\* and no listing is returned.
phone_get_available_appointments_aborts ==
    /\ driver = "phone"
    /\ \E email_sent \in send_patient_info_email :
          /\ patient_info' = [patient_info EXCEPT
                                 !.stage = IF email_sent = PyTrue THEN "complete" ELSE @]
          /\ last' = Dispatching(
                        Called("get_available_appointments", <<>>,
                               IF email_sent = PyTrue
                               THEN Returned("Here are the available appointments:",
                                             [count |-> 3, email_sent |-> TRUE,
                                              trailing |-> InformationSent])
                               ELSE Returned("", [count |-> 0, email_sent |-> FALSE,
                                                  trailing |-> IssueSending])),
                        patient_info', email_sent)
    /\ UNCHANGED <<driver, line, ncalls>>

phone_get_available_appointments ==
    /\ driver = "phone"
    /\ patient_info' = [patient_info EXCEPT !.stage = "complete"]
    /\ \E email_sent \in send_patient_info_email :
          last' = Dispatching(
                     Called("get_available_appointments", <<>>,
                            Returned("Here are the available appointments:",
                                     [count |-> 3,
                                      email_sent |-> email_sent = PyTrue,
                                      trailing |-> IF email_sent = PyTrue
                                                   THEN InformationSent
                                                   ELSE IssueSending])),
                     patient_info', email_sent)
    /\ UNCHANGED <<driver, line, ncalls>>

phone_get_patient_summary ==
    /\ driver = "phone"
    /\ last' = Called("get_patient_summary", <<>>,
                      Returned("{json}", json_dumps(patient_info)))
    /\ UNCHANGED <<driver, patient_info, line, ncalls>>

\* A session starts in a room; the caller's number, when given, is stored.
phone_run_agent_in_room(caller_phone) ==
    /\ driver = "phone"
    /\ patient_info' = IF Truthy(caller_phone)
                       THEN [patient_info EXCEPT !.phone = caller_phone]
                       ELSE patient_info
    /\ last' = Called("run_agent_in_room", <<caller_phone>>,
                      Returned("Hello! Thank you for calling.", <<>>))
    /\ UNCHANGED <<driver, line, ncalls>>

-----------------------------------------------------------------------------
(* Webhook server of src/phone_agent.py *)

\* A TwiML document: what is said, the action of its <Gather> ("" when it has
\* none) and what follows the gather: a <Redirect> URL, or "hangup" when the
\* document ends there.
Twiml(say, gather, next) == [say |-> say, gather |-> gather, next |-> next]

\* No call in progress.
Idle == [say |-> "", gather |-> "", next |-> ""]

\* form_data.get(key, ""): None stands for a key the request does not carry.
FormGet(v) == IF v = None THEN EmptyStr ELSE v

\* form_data.get("SpeechResult") or form_data.get("Digits", "")
SpeechOrDigits(SpeechResult, Digits) ==
    IF Truthy(SpeechResult) THEN SpeechResult ELSE FormGet(Digits)

\* The platform posts the caller's input to the action of the gather.
Gathered(url) == driver = "webhook" /\ line.gather = url

\* The platform follows the redirect: at once when the document has no gather,
\* otherwise when the gather heard nothing within its timeout.
Redirected(url) == driver = "webhook" /\ line.next = url

\* The handler returns the document; the platform acts on it next.
Respond(op, args, response) ==
    /\ last' = Called(op, args, response)
    /\ line' = response

GenericError == "I'm sorry, there was an error. Please try again later."
Goodbye == "I'm having trouble hearing you. Please try calling back when you have a better connection. Goodbye."

handle_voice_webhook(From) ==
    /\ driver = "webhook"
    /\ line = Idle
    /\ ncalls < MaxCalls
    /\ ncalls' = ncalls + 1
    /\ Respond("handle_voice_webhook", <<From>>,
               Twiml("Hello! Thank you for calling our patient intake system.",
                     "/voice/collect-name", "/voice/retry-name"))
    /\ heard' = [heard EXCEPT ![conv] = None]
    /\ UNCHANGED <<driver, patient_info>>

\* The document ended (after its gather, if any, heard nothing): the call is over.
hangup ==
    /\ driver = "webhook"
    /\ line.next = "hangup"
    /\ line' = Idle
    /\ UNCHANGED <<driver, patient_info, last, ncalls>>

collect_name(SpeechResult, From) ==
    LET name == Strip(FormGet(SpeechResult))
        caller_phone == From
    IN  /\ Gathered("/voice/collect-name")
        /\ patient_info' = [patient_info EXCEPT !.name = name, !.phone = caller_phone]
        /\ Respond("collect_name", <<SpeechResult, From>>,
                   IF Truthy(name)
                   THEN Twiml("Thank you, {name}.", "/voice/collect-dob", "/voice/retry-dob")
                   ELSE Twiml("", "", "/voice/retry-name"))
        /\ heard' = [heard EXCEPT ![conv] = name]
        /\ UNCHANGED <<driver, ncalls>>

\* A slip: the retry wipes what was heard before asking again.
retry_name_clears ==
    /\ Redirected("/voice/retry-name")
    /\ patient_info' = [patient_info EXCEPT !.name = None]
    /\ Respond("retry_name", <<>>,
               Twiml("I'm sorry, I didn't catch that.", "/voice/collect-name", "hangup"))
    /\ UNCHANGED <<driver, ncalls>>

retry_name ==
    /\ Redirected("/voice/retry-name")
    /\ Respond("retry_name", <<>>,
               Twiml("I'm sorry, I didn't catch that.", "/voice/collect-name", "hangup"))
    /\ UNCHANGED <<driver, patient_info, ncalls>>

\* A lenient handler: silence is taken as an answer and the call moves on.
collect_dob_lenient(SpeechResult) ==
    LET dob == Strip(FormGet(SpeechResult))
    IN  /\ Gathered("/voice/collect-dob")
        /\ patient_info' = [patient_info EXCEPT !.date_of_birth = dob]
        /\ Respond("collect_dob", <<SpeechResult>>,
                   Twiml("Thank you. I have your date of birth as {dob}.",
                         "/voice/collect-insurance", "/voice/retry-insurance"))
        /\ UNCHANGED <<driver, ncalls>>

collect_dob(SpeechResult) ==
    LET dob == Strip(FormGet(SpeechResult))
    IN  /\ Gathered("/voice/collect-dob")
        /\ patient_info' = [patient_info EXCEPT !.date_of_birth = dob]
        /\ Respond("collect_dob", <<SpeechResult>>,
                   IF Truthy(dob)
                   THEN Twiml("Thank you. I have your date of birth as {dob}.",
                              "/voice/collect-insurance", "/voice/retry-insurance")
                   ELSE Twiml("", "", "/voice/retry-dob"))
        /\ UNCHANGED <<driver, ncalls>>

retry_dob ==
    /\ Redirected("/voice/retry-dob")
    /\ Respond("retry_dob", <<>>,
               Twiml("I'm sorry, I didn't hear your date of birth.", "/voice/collect-dob", "hangup"))
    /\ UNCHANGED <<driver, patient_info, ncalls>>

\* A shortcut: the member id is not asked for.
collect_insurance_skips_id(SpeechResult) ==
    LET insurance == Strip(FormGet(SpeechResult))
    IN  /\ Gathered("/voice/collect-insurance")
        /\ patient_info' = [patient_info EXCEPT !.insurance_payer = insurance]
        /\ Respond("collect_insurance", <<SpeechResult>>,
                   IF Truthy(insurance)
                   THEN Twiml("Thank you. I have your insurance as {insurance}.",
                              "/voice/collect-referral", "/voice/retry-referral")
                   ELSE Twiml("", "", "/voice/retry-insurance"))
        /\ UNCHANGED <<driver, ncalls>>

collect_insurance(SpeechResult) ==
    LET insurance == Strip(FormGet(SpeechResult))
    IN  /\ Gathered("/voice/collect-insurance")
        /\ patient_info' = [patient_info EXCEPT !.insurance_payer = insurance]
        /\ Respond("collect_insurance", <<SpeechResult>>,
                   IF Truthy(insurance)
                   THEN Twiml("Thank you. I have your insurance as {insurance}.",
                              "/voice/collect-insurance-id", "/voice/retry-insurance-id")
                   ELSE Twiml("", "", "/voice/retry-insurance"))
        /\ UNCHANGED <<driver, ncalls>>

retry_insurance ==
    /\ Redirected("/voice/retry-insurance")
    /\ Respond("retry_insurance", <<>>,
               Twiml("I'm sorry, I didn't catch your insurance company name.", "/voice/collect-insurance", "hangup"))
    /\ UNCHANGED <<driver, patient_info, ncalls>>

collect_insurance_id(SpeechResult, Digits) ==
    LET insurance_id == Strip(SpeechOrDigits(SpeechResult, Digits))
    IN  /\ Gathered("/voice/collect-insurance-id")
        /\ patient_info' = [patient_info EXCEPT !.insurance_id = insurance_id]
        /\ Respond("collect_insurance_id", <<SpeechResult, Digits>>,
                   IF Truthy(insurance_id)
                   THEN Twiml("Thank you. I have your insurance ID.",
                              "/voice/collect-referral", "/voice/retry-referral")
                   ELSE Twiml("", "", "/voice/retry-insurance-id"))
        /\ UNCHANGED <<driver, ncalls>>

retry_insurance_id ==
    /\ Redirected("/voice/retry-insurance-id")
    /\ Respond("retry_insurance_id", <<>>,
               Twiml("I'm sorry, I didn't catch your insurance ID number.", "/voice/collect-insurance-id", "hangup"))
    /\ UNCHANGED <<driver, patient_info, ncalls>>

\* any(word in referral_response for word in ["yes", "yeah", "yep", "have", "got"])
SaysYes(referral_response) ==
    \E word \in {<<"y","e","s">>, <<"y","e","a","h">>, <<"y","e","p">>,
                 <<"h","a","v","e">>, <<"g","o","t">>} :
        Contains(referral_response, word)

collect_referral(SpeechResult) ==
    LET referral_response == Lower(Strip(FormGet(SpeechResult)))
        has_referral == SaysYes(referral_response)
    IN  /\ Gathered("/voice/collect-referral")
        /\ patient_info' =
              IF ~Truthy(referral_response) THEN patient_info
              ELSE IF has_referral
              THEN [patient_info EXCEPT !.has_referral = PyTrue]
              ELSE [patient_info EXCEPT !.has_referral = PyFalse,
                                        !.referral_physician = EmptyStr]
        /\ Respond("collect_referral", <<SpeechResult>>,
                   IF ~Truthy(referral_response)
                   THEN Twiml("", "", "/voice/retry-referral")
                   ELSE IF has_referral
                   THEN Twiml("Great.", "/voice/collect-physician", "/voice/retry-physician")
                   ELSE Twiml("Okay, no problem.",
                              "/voice/collect-complaint", "/voice/retry-complaint"))
        /\ UNCHANGED <<driver, ncalls>>

retry_referral ==
    /\ Redirected("/voice/retry-referral")
    /\ Respond("retry_referral", <<>>,
               Twiml("I'm sorry, I didn't catch that.", "/voice/collect-referral", "hangup"))
    /\ UNCHANGED <<driver, patient_info, ncalls>>

collect_physician(SpeechResult) ==
    LET physician == Strip(FormGet(SpeechResult))
    IN  /\ Gathered("/voice/collect-physician")
        /\ patient_info' = [patient_info EXCEPT !.referral_physician = physician]
        /\ Respond("collect_physician", <<SpeechResult>>,
                   IF Truthy(physician)
                   THEN Twiml("Thank you. I have the referral from Doctor {physician}.",
                              "/voice/collect-complaint", "/voice/retry-complaint")
                   ELSE Twiml("", "", "/voice/retry-physician"))
        /\ UNCHANGED <<driver, ncalls>>

retry_physician ==
    /\ Redirected("/voice/retry-physician")
    /\ Respond("retry_physician", <<>>,
               Twiml("I'm sorry, I didn't catch the physician's name.", "/voice/collect-physician", "hangup"))
    /\ UNCHANGED <<driver, patient_info, ncalls>>

collect_complaint(SpeechResult) ==
    LET complaint == Strip(FormGet(SpeechResult))
    IN  /\ Gathered("/voice/collect-complaint")
        /\ patient_info' = IF Truthy(complaint)
                           THEN [patient_info EXCEPT !.chief_complaint = complaint]
                           ELSE patient_info
        /\ Respond("collect_complaint", <<SpeechResult>>,
                   IF Truthy(complaint)
                   THEN Twiml("Thank you. I have your reason for the visit as {complaint}.",
                              "/voice/collect-address", "/voice/retry-address")
                   ELSE Twiml("", "", "/voice/retry-complaint"))
        /\ UNCHANGED <<driver, ncalls>>

retry_complaint ==
    /\ Redirected("/voice/retry-complaint")
    /\ Respond("retry_complaint", <<>>,
               Twiml("I'm sorry, I didn't catch that.", "/voice/collect-complaint", "hangup"))
    /\ UNCHANGED <<driver, patient_info, ncalls>>

\* A bounded retry: a rejected address ends the call with the apology.
collect_address_gives_up(SpeechResult) ==
    LET address == Strip(FormGet(SpeechResult))
        validation_result == phone_validation_result[address]
    IN  /\ Gathered("/voice/collect-address")
        /\ patient_info' =
              IF Truthy(address)
              THEN [patient_info EXCEPT
                       !.address = address,
                       !.address_valid = PyBool(validation_result.valid)]
              ELSE patient_info
        /\ Respond("collect_address", <<SpeechResult>>,
                   IF ~Truthy(address)
                   THEN Twiml("", "", "/voice/retry-address")
                   ELSE IF validation_result.valid
                   THEN Twiml("Thank you. I have your address.",
                              "/voice/collect-contact", "/voice/retry-contact")
                   ELSE Twiml(<<"I'm sorry, but {message}", validation_result.message.fields>>,
                              "", "hangup"))
        /\ UNCHANGED <<driver, ncalls>>

\* A slip: a rejected address is stored and the call moves on all the same.
collect_address_lets_through(SpeechResult) ==
    LET address == Strip(FormGet(SpeechResult))
        validation_result == phone_validation_result[address]
    IN  /\ Gathered("/voice/collect-address")
        /\ patient_info' =
              IF Truthy(address)
              THEN [patient_info EXCEPT
                       !.address = address,
                       !.address_valid = PyBool(validation_result.valid)]
              ELSE patient_info
        /\ Respond("collect_address", <<SpeechResult>>,
                   IF ~Truthy(address)
                   THEN Twiml("", "", "/voice/retry-address")
                   ELSE Twiml("Thank you. I have your address.",
                              "/voice/collect-contact", "/voice/retry-contact"))
        /\ UNCHANGED <<driver, ncalls>>

\* A slip: a rejected address is stored without its verdict.
collect_address_keeps_flag(SpeechResult) ==
    LET address == Strip(FormGet(SpeechResult))
        validation_result == phone_validation_result[address]
    IN  /\ Gathered("/voice/collect-address")
        /\ patient_info' =
              IF Truthy(address)
              THEN [patient_info EXCEPT
                       !.address = address,
                       !.address_valid = IF validation_result.valid THEN PyTrue ELSE @]
              ELSE patient_info
        /\ Respond("collect_address", <<SpeechResult>>,
                   IF ~Truthy(address)
                   THEN Twiml("", "", "/voice/retry-address")
                   ELSE IF validation_result.valid
                   THEN Twiml("Thank you. I have your address.",
                              "/voice/collect-contact", "/voice/retry-contact")
                   ELSE Twiml(<<"I'm sorry, but {message}", validation_result.message.fields>>,
                              "/voice/collect-address", "/voice/retry-address"))
        /\ UNCHANGED <<driver, ncalls>>

collect_address(SpeechResult) ==
    LET address == Strip(FormGet(SpeechResult))
        validation_result == phone_validation_result[address]
    IN  /\ Gathered("/voice/collect-address")
        /\ patient_info' =
              IF Truthy(address)
              THEN [patient_info EXCEPT
                       !.address = address,
                       !.address_valid = PyBool(validation_result.valid)]
              ELSE patient_info
        /\ Respond("collect_address", <<SpeechResult>>,
                   IF ~Truthy(address)
                   THEN Twiml("", "", "/voice/retry-address")
                   ELSE IF validation_result.valid
                   THEN Twiml("Thank you. I have your address.",
                              "/voice/collect-contact", "/voice/retry-contact")
                   ELSE Twiml(<<"I'm sorry, but {message}", validation_result.message.fields>>,
                              "/voice/collect-address", "/voice/retry-address"))
        /\ UNCHANGED <<driver, ncalls>>

retry_address ==
    /\ Redirected("/voice/retry-address")
    /\ Respond("retry_address", <<>>,
               Twiml("I'm sorry, I didn't catch your complete address.", "/voice/collect-address", "hangup"))
    /\ UNCHANGED <<driver, patient_info, ncalls>>

collect_contact(SpeechResult, Digits, From) ==
    LET phone == Strip(SpeechOrDigits(SpeechResult, Digits))
        caller_phone == From
    IN  /\ Gathered("/voice/collect-contact")
        /\ patient_info' = IF Truthy(phone)
                           THEN [patient_info EXCEPT
                                    !.phone = IF Truthy(phone) THEN phone ELSE caller_phone]
                           ELSE patient_info
        /\ Respond("collect_contact", <<SpeechResult, Digits, From>>,
                   IF Truthy(phone)
                   THEN Twiml("Thank you.", "/voice/collect-email", "/voice/retry-email")
                   ELSE Twiml("", "", "/voice/retry-contact"))
        /\ UNCHANGED <<driver, ncalls>>

retry_contact ==
    /\ Redirected("/voice/retry-contact")
    /\ Respond("retry_contact", <<>>,
               Twiml("I'm sorry, I didn't catch your phone number.", "/voice/collect-contact", "hangup"))
    /\ UNCHANGED <<driver, patient_info, ncalls>>

\* generate_appointments: slot i is i days after tomorrow, with a doctor and a
\* time drawn at random.
doctors == <<"Dr. Smith", "Dr. Johnson", "Dr. Williams">>
times == <<"9:00 AM", "10:30 AM", "2:00 PM", "3:30 PM">>

generate_appointment(i) ==
    {[date |-> <<"tomorrow+", i>>, time |-> <<times[t]>>, doctor |-> <<doctors[d]>>] :
        t \in 1..Len(times), d \in 1..Len(doctors)}

\* any(word in email_response for word in ["no", "nope", "don't", "skip"])
Declines(email_response) ==
    \E word \in {<<"n","o">>, <<"n","o","p","e">>, <<"d","o","n","'","t">>,
                 <<"s","k","i","p">>} :
        Contains(email_response, word)

ConfirmationSent == "Your appointment confirmation has been sent."
ThankYouGoodbye == "Thank you for calling. We look forward to seeing you. Goodbye."

\* A slip: the second generated slot is booked, not the first.
collect_email_books_second(SpeechResult) ==
    LET email_response == Lower(Strip(FormGet(SpeechResult)))
    IN  /\ \/ Gathered("/voice/collect-email")
           \/ Redirected("/voice/collect-email") /\ SpeechResult = None
        /\ \E selected_appointment \in generate_appointment(1),
              confirmation_sent \in send_patient_info_email :
              /\ patient_info' =
                    ("appointment" :> selected_appointment) @@
                    [patient_info EXCEPT
                        !.email = IF Declines(email_response) THEN EmptyStr
                                  ELSE email_response,
                        !.stage = "complete"]
              /\ line' = Twiml(<<"I've scheduled you for {date} at {time} with {doctor}.",
                                selected_appointment>>
                              \o (IF confirmation_sent = PyTrue
                                  THEN <<ConfirmationSent>> ELSE <<>>)
                              \o <<ThankYouGoodbye>>,
                              "", "hangup")
              /\ last' = Dispatching(Called("collect_email", <<SpeechResult>>, line'),
                                     patient_info', confirmation_sent)
        /\ UNCHANGED <<driver, ncalls>>

\* The first generated slot is stored and mailed; the other two are only read
\* out.  send_patient_info_email returns True, or False when anything in it
\* raised.
collect_email(SpeechResult) ==
    LET email_response == Lower(Strip(FormGet(SpeechResult)))
    IN  /\ \/ Gathered("/voice/collect-email")
           \/ Redirected("/voice/collect-email") /\ SpeechResult = None
        /\ \E selected_appointment \in generate_appointment(0),
              confirmation_sent \in send_patient_info_email :
              /\ patient_info' =
                    ("appointment" :> selected_appointment) @@
                    [patient_info EXCEPT
                        !.email = IF Declines(email_response) THEN EmptyStr
                                  ELSE email_response,
                        !.stage = "complete"]
              /\ line' = Twiml(<<"I've scheduled you for {date} at {time} with {doctor}.",
                                selected_appointment>>
                              \o (IF confirmation_sent = PyTrue
                                  THEN <<ConfirmationSent>> ELSE <<>>)
                              \o <<ThankYouGoodbye>>,
                              "", "hangup")
              /\ last' = Dispatching(Called("collect_email", <<SpeechResult>>, line'),
                                     patient_info', confirmation_sent)
        /\ UNCHANGED <<driver, ncalls>>

\* The fallback of the other retry handlers: silence ends the call.
retry_email_hangs_up ==
    /\ Redirected("/voice/retry-email")
    /\ Respond("retry_email", <<>>,
               Twiml("I'm sorry, I didn't catch that.", "/voice/collect-email", "hangup"))
    /\ UNCHANGED <<driver, patient_info, ncalls>>

retry_email ==
    /\ Redirected("/voice/retry-email")
    /\ Respond("retry_email", <<>>,
               Twiml("I'm sorry, I didn't catch that.", "/voice/collect-email", "/voice/collect-email"))
    /\ UNCHANGED <<driver, patient_info, ncalls>>

-----------------------------------------------------------------------------
(* The program: any tool at any time *)

Init ==
    /\ driver \in {"agent", "phone", "webhook"}
    /\ patient_info = InitialRecord
    /\ last = [op |-> "import", args |-> <<>>, result |-> Returned("", <<>>),
               dispatch |-> <<>>, n |-> 1]
    /\ step = "store_patient_name"
    /\ line = Idle
    /\ ncalls = 0
    /\ conv = 1
    /\ parked = [c \in Calls |-> Idle]
    /\ heard = [c \in Calls |-> None]
    /\ nswitch = 0
    /\ tasks = {}

\* The order in which the agent is instructed to collect the fields.
Script ==
    <<"store_patient_name", "store_date_of_birth", "store_insurance",
      "store_referral_info", "store_chief_complaint", "store_and_validate_address",
      "store_contact_info", "get_available_appointments", "done">>

After(op) == Script[1 + CHOOSE k \in 1..Len(Script) : Script[k] = op]

\* A tool call.  `step` is the tool the instructions ask for next while the
\* calls made since the record was created have followed them, and "off" once
\* one has not; a rejected address is asked for again.
Tool(op, A) ==
    /\ A
    /\ UNCHANGED <<conv, parked, heard, nswitch, tasks>>
    /\ step' = IF step # op THEN "off"
               ELSE IF op = "store_and_validate_address"
                       /\ patient_info'.address_valid = PyFalse THEN op
               ELSE After(op)

\* The summary may be asked for at any time; a session opens before any tool.
Aside(A) == A /\ step' = step /\ UNCHANGED <<conv, parked, heard, nswitch, tasks>>
Opening(A) ==
    /\ A
    /\ step' = IF step = Script[1] THEN step ELSE "off"
    /\ UNCHANGED <<conv, parked, heard, nswitch, tasks>>

\* A webhook request: no tool is involved.  Answer is a request that starts a
\* call or hears the caller's name.
Web(A) == A /\ UNCHANGED <<step, conv, parked, heard, nswitch, tasks>>
Answer(A) == A /\ UNCHANGED <<step, conv, parked, nswitch, tasks>>

OptPhysicians == Physicians \cup {None}
OptEmails == Emails \cup {None}

\* The requests the webhook server answers.
Requests ==
    \/ Answer(handle_voice_webhook(CallerId))
    \/ Web(hangup)
    \/ \E sr \in Heard(Names) : Answer(collect_name(sr, CallerId))
    \/ Web(retry_name)
    \/ \E sr \in Heard(Dobs) : Web(collect_dob(sr))
    \/ Web(retry_dob)
    \/ \E sr \in Heard(Payers) : Web(collect_insurance(sr))
    \/ Web(retry_insurance)
    \/ \E sr \in Heard(MemberIds) : Web(collect_insurance_id(sr, None))
    \/ \E d \in Keyed : Web(collect_insurance_id(None, d))
    \/ Web(retry_insurance_id)
    \/ \E sr \in Heard({SayYes, SayNo}) : Web(collect_referral(sr))
    \/ Web(retry_referral)
    \/ \E sr \in Heard(Physicians) : Web(collect_physician(sr))
    \/ Web(retry_physician)
    \/ \E sr \in Heard(Complaints) : Web(collect_complaint(sr))
    \/ Web(retry_complaint)
    \/ \E sr \in Heard(Addresses) : Web(collect_address(sr))
    \/ Web(retry_address)
    \/ \E sr \in Heard(Phones) : Web(collect_contact(sr, None, CallerId))
    \/ \E d \in Keyed : Web(collect_contact(None, d, CallerId))
    \/ Web(retry_contact)
    \/ \E sr \in Heard(Emails \cup {SayNo}) \cup {None} : Web(collect_email(sr))
    \/ Web(retry_email)

Next ==
    \/ Opening(agent_entrypoint)
    \/ \E name \in Names : Tool("store_patient_name", agent_store_patient_name(name))
    \/ \E dob \in Dobs : Tool("store_date_of_birth", agent_store_date_of_birth(dob))
    \/ \E p \in Payers, i \in MemberIds :
          Tool("store_insurance", agent_store_insurance(p, i))
    \/ \E h \in BOOLEAN, p \in OptPhysicians :
          Tool("store_referral_info", agent_store_referral_info(h, p))
    \/ \E c \in Complaints : Tool("store_chief_complaint", agent_store_chief_complaint(c))
    \/ \E a \in Addresses :
          Tool("store_and_validate_address", agent_store_and_validate_address(a))
    \/ \E p \in Phones, e \in OptEmails :
          Tool("store_contact_info", agent_store_contact_info(p, e))
    \/ Tool("get_available_appointments", agent_get_available_appointments)
    \/ Aside(agent_get_patient_summary)
    \/ \E c \in Phones \cup {None} : Opening(phone_run_agent_in_room(c))
    \/ \E name \in Names : Tool("store_patient_name", phone_store_patient_name(name))
    \/ \E dob \in Dobs : Tool("store_date_of_birth", phone_store_date_of_birth(dob))
    \/ \E p \in Payers, i \in MemberIds :
          Tool("store_insurance", phone_store_insurance(p, i))
    \/ \E h \in BOOLEAN, p \in OptPhysicians :
          Tool("store_referral_info", phone_store_referral_info(h, p))
    \/ \E c \in Complaints : Tool("store_chief_complaint", phone_store_chief_complaint(c))
    \/ \E a \in Addresses :
          Tool("store_and_validate_address", phone_store_and_validate_address(a))
    \/ \E p \in Phones, e \in OptEmails :
          Tool("store_contact_info", phone_store_contact_info(p, e))
    \/ Tool("get_available_appointments", phone_get_available_appointments)
    \/ Aside(phone_get_patient_summary)
    \/ Requests

Spec == Init /\ [][Next]_vars

\* The questions of a call in the order the handlers chain them, each with the
\* URLs its answer is posted to.
QuestionUrls ==
    << {"/voice/collect-name", "/voice/retry-name"},
       {"/voice/collect-dob", "/voice/retry-dob"},
       {"/voice/collect-insurance", "/voice/retry-insurance"},
       {"/voice/collect-insurance-id", "/voice/retry-insurance-id"},
       {"/voice/collect-referral", "/voice/retry-referral"},
       {"/voice/collect-physician", "/voice/retry-physician"},
       {"/voice/collect-complaint", "/voice/retry-complaint"},
       {"/voice/collect-address", "/voice/retry-address"},
       {"/voice/collect-contact", "/voice/retry-contact"},
       {"/voice/collect-email", "/voice/retry-email"} >>

\* The questions a document is waiting on.
Asking(document) ==
    {i \in 1..Len(QuestionUrls) :
        document.gather \in QuestionUrls[i] \/ document.next \in QuestionUrls[i]}

\* How far into its questions a call may be when the server turns from it.
MaxLead == 2

\* The server turns to a request of another call: the platform keeps every
\* open call's position, the server keeps nothing per call.
switch(c) ==
    /\ driver = "webhook"
    /\ c # conv
    /\ \E i \in Asking(line) : i <= MaxLead
    /\ parked[c].next # "" \/ ncalls < MaxCalls
    /\ nswitch < MaxSwitch
    /\ nswitch' = nswitch + 1
    /\ conv' = c
    /\ line' = parked[c]
    /\ parked' = [parked EXCEPT ![conv] = line, ![c] = Idle]
    /\ UNCHANGED <<driver, patient_info, last, step, ncalls, heard, tasks>>

\* The webhook server with several calls open at once.
InitCalls == Init /\ driver = "webhook"
NextCalls ==
    \/ Requests
    \/ \E c \in Calls : switch(c)
SpecCalls == InitCalls /\ [][NextCalls]_vars

\* Tool coroutines on the event loop.  A task is created when the tool is
\* called and runs when the loop gets to it; once running it keeps the loop
\* until it returns or awaits something that yields.
MaxTasks == 2

Entry == "entry"

\* What each tool awaits, in order.
AwaitPoints(op) ==
    IF op = "store_and_validate_address" THEN <<"validate_address">>
    ELSE IF op = "get_available_appointments" /\ driver = "phone"
    THEN <<"generate_appointments", "send_patient_info_email">>
    ELSE <<>>

\* Were the awaited calls real network calls, each would yield.
YieldsAlways(callee) == TRUE

\* Whether awaiting the coroutine hands the loop to other tasks: none of the
\* three has an await of its own (send_patient_info_email blocks in smtplib).
Yields(callee) == FALSE

\* The record once the statements before the await have run.
WrittenBefore(op, callee, rec) ==
    IF op = "get_available_appointments" /\ callee = "send_patient_info_email"
    THEN [rec EXCEPT !.stage = "complete"]
    ELSE rec

Position(t) ==
    IF t.at = Entry THEN 0
    ELSE CHOOSE k \in 1..Len(AwaitPoints(t.op)) : AwaitPoints(t.op)[k] = t.at

\* The awaits still ahead of a task at which it would stop.
StopsAt(t) ==
    {k \in (Position(t) + 1)..Len(AwaitPoints(t.op)) : Yields(AwaitPoints(t.op)[k])}

Invocations ==
    {[op |-> "store_and_validate_address", args |-> <<a>>, at |-> Entry] : a \in Addresses}
    \cup {[op |-> o, args |-> <<>>, at |-> Entry] :
              o \in {"get_available_appointments", "get_patient_summary"}}
    \cup {[op |-> "store_chief_complaint", args |-> <<c>>, at |-> Entry] : c \in Complaints}

\* The statements of a tool from its last await to its return.
Body(t) ==
    CASE t.op = "store_and_validate_address" ->
            IF driver = "agent" THEN agent_store_and_validate_address(t.args[1])
            ELSE phone_store_and_validate_address(t.args[1])
      [] t.op = "store_chief_complaint" ->
            IF driver = "agent" THEN agent_store_chief_complaint(t.args[1])
            ELSE phone_store_chief_complaint(t.args[1])
      [] t.op = "get_available_appointments" ->
            IF driver = "agent" THEN agent_get_available_appointments
            ELSE phone_get_available_appointments
      [] t.op = "get_patient_summary" ->
            IF driver = "agent" THEN agent_get_patient_summary
            ELSE phone_get_patient_summary

create_task(t) ==
    /\ driver \in {"agent", "phone"}
    /\ t \notin tasks
    /\ Cardinality(tasks) < MaxTasks
    /\ tasks' = tasks \cup {t}
    /\ UNCHANGED <<driver, patient_info, last, step, line, ncalls, conv, parked, heard,
                   nswitch>>

run_task(t) ==
    /\ t \in tasks
    /\ IF StopsAt(t) # {}
       THEN LET callee == AwaitPoints(t.op)[CHOOSE k \in StopsAt(t) :
                                               \A j \in StopsAt(t) : k <= j]
            IN  /\ patient_info' = WrittenBefore(t.op, callee, patient_info)
                /\ tasks' = (tasks \ {t}) \cup {[t EXCEPT !.at = callee]}
                /\ UNCHANGED <<driver, last, line, ncalls>>
       ELSE /\ Body(t)
            /\ tasks' = tasks \ {t}
    /\ UNCHANGED <<step, conv, parked, heard, nswitch>>

InitAwait == Init /\ driver \in {"agent", "phone"}
NextAwait ==
    \/ \E t \in Invocations : create_task(t)
    \/ \E t \in tasks : run_task(t)
SpecAwait == InitAwait /\ [][NextAwait]_vars

\* Addresses put to the validator on its own: every way of putting together an
\* optional street number, a street, a city, an optional state and an optional
\* ZIP code, with or without commas.
StreetNumbers == \* "9 ", ""
    {<<"9", " ">>,
     <<>>}
Streets == \* "Oak Dr", "Elm St", "Elm"
    {<<"O", "a", "k", " ", "D", "r">>,
     <<"E", "l", "m", " ", "S", "t">>,
     <<"E", "l", "m">>}
Separators == \* ", ", " "
    {<<",", " ">>,
     <<" ">>}
Cities == \* "Reno", "Dallas"
    {<<"R", "e", "n", "o">>,
     <<"D", "a", "l", "l", "a", "s">>}
StateParts == \* "", ", IL", " IL", ", Texas"
    {<<>>,
     <<",", " ", "I", "L">>,
     <<" ", "I", "L">>,
     <<",", " ", "T", "e", "x", "a", "s">>}
ZipParts == \* "", ", 89501", " 8950"
    {<<>>,
     <<",", " ", "8", "9", "5", "0", "1">>,
     <<" ", "8", "9", "5", "0">>}

ValidatorInputs ==
    {n \o st \o sep \o c \o sp \o z :
        n \in StreetNumbers, st \in Streets, sep \in Separators, c \in Cities,
        sp \in StateParts, z \in ZipParts}

\* The validator of the running program called on its own.
validate_address(address) ==
    /\ driver \in {"agent", "phone"}
    /\ last' = Called("validate_address", <<address>>,
                      IF driver = "agent" THEN agent_validate_address(address)
                      ELSE phone_validate_address(address))
    /\ UNCHANGED <<driver, patient_info, step, line, ncalls, conv, parked, heard, nswitch,
                   tasks>>

InitValidate == Init /\ driver \in {"agent", "phone"}
NextValidate == \E address \in ValidatorInputs : validate_address(address)
SpecValidate == InitValidate /\ [][NextValidate]_vars

\* The appointment generator of src/agent.py on its own: the listing is asked
\* for once, with every slot drawn from the least and the greatest of the day
\* offsets and any of the hours and minutes.
SlotDayOffsets ==
    {d \in DayOffsets : (\A e \in DayOffsets : d <= e) \/ (\A e \in DayOffsets : e <= d)}

get_available_appointments ==
    /\ last.op = "import"
    /\ agent_get_available_appointments_from(Slots(SlotDayOffsets, Hours, Minutes))
    /\ UNCHANGED <<step, conv, parked, heard, nswitch, tasks>>

InitSlots == Init /\ driver = "agent"
NextSlots == get_available_appointments
SpecSlots == InitSlots /\ [][NextSlots]_vars

\* The telephony fields with their handlers and routes.
TelephonyFields ==
    {[collect |-> "collect_name", retry |-> "retry_name",
      collect_url |-> "/voice/collect-name", retry_url |-> "/voice/retry-name"],
     [collect |-> "collect_dob", retry |-> "retry_dob",
      collect_url |-> "/voice/collect-dob", retry_url |-> "/voice/retry-dob"],
     [collect |-> "collect_insurance", retry |-> "retry_insurance",
      collect_url |-> "/voice/collect-insurance", retry_url |-> "/voice/retry-insurance"],
     [collect |-> "collect_insurance_id", retry |-> "retry_insurance_id",
      collect_url |-> "/voice/collect-insurance-id",
      retry_url |-> "/voice/retry-insurance-id"],
     [collect |-> "collect_referral", retry |-> "retry_referral",
      collect_url |-> "/voice/collect-referral", retry_url |-> "/voice/retry-referral"],
     [collect |-> "collect_physician", retry |-> "retry_physician",
      collect_url |-> "/voice/collect-physician", retry_url |-> "/voice/retry-physician"],
     [collect |-> "collect_complaint", retry |-> "retry_complaint",
      collect_url |-> "/voice/collect-complaint", retry_url |-> "/voice/retry-complaint"],
     [collect |-> "collect_address", retry |-> "retry_address",
      collect_url |-> "/voice/collect-address", retry_url |-> "/voice/retry-address"],
     [collect |-> "collect_contact", retry |-> "retry_contact",
      collect_url |-> "/voice/collect-contact", retry_url |-> "/voice/retry-contact"],
     [collect |-> "collect_email", retry |-> "retry_email",
      collect_url |-> "/voice/collect-email", retry_url |-> "/voice/retry-email"]}

\* The tools of either program.
ToolOps ==
    {"store_patient_name", "store_date_of_birth", "store_insurance",
     "store_referral_info", "store_chief_complaint", "store_and_validate_address",
     "store_contact_info", "get_available_appointments", "get_patient_summary"}

\* A handler that raised and had nothing around it to catch the exception
\* returns nothing: the exception goes to whatever called it.
Unhandled == [exception |-> "Exception"]

\* The incoming-call handler raises inside its try: the except clause answers
\* with the apology and the document ends there.
handle_voice_webhook_raises ==
    /\ driver = "webhook"
    /\ line = Idle
    /\ ncalls < MaxCalls
    /\ ncalls' = ncalls + 1
    /\ Respond("handle_voice_webhook", <<>>, Twiml(GenericError, "", "hangup"))
    /\ UNCHANGED <<driver, patient_info, step, conv, parked, heard, nswitch, tasks>>

\* A collect handler raises at request.form(), the first statement of its try:
\* the except clause answers with the apology and the document ends there.
collect_raises(f) ==
    /\ Gathered(f.collect_url)
    /\ Respond(f.collect, <<>>, Twiml(GenericError, "", "hangup"))
    /\ UNCHANGED <<driver, patient_info, step, ncalls, conv, parked, heard, nswitch, tasks>>

\* A retry handler raises: it has no try, the exception leaves the handler and
\* the platform gets no document for the call.
retry_raises(f) ==
    /\ Redirected(f.retry_url)
    /\ last' = Called(f.retry, <<>>, Unhandled)
    /\ line' = Twiml("", "", "hangup")
    /\ UNCHANGED <<driver, patient_info, step, ncalls, conv, parked, heard, nswitch, tasks>>

\* A tool raises: no tool has a try, the exception leaves the tool.
tool_raises(op) ==
    /\ driver \in {"agent", "phone"}
    /\ last' = Called(op, <<>>, Unhandled)
    /\ UNCHANGED <<driver, patient_info, step, line, ncalls, conv, parked, heard, nswitch,
                   tasks>>

\* A call-status update: logged and acknowledged; request.form() is outside
\* any try.
handle_status_webhook(raises) ==
    /\ driver = "webhook"
    /\ last' = Called("handle_status_webhook", <<>>,
                      IF raises THEN Unhandled ELSE [status |-> "ok"])
    /\ UNCHANGED <<driver, patient_info, step, line, ncalls, conv, parked, heard, nswitch,
                   tasks>>

\* The program with handlers that may raise.
NextFaults ==
    \/ Next
    \/ handle_voice_webhook_raises
    \/ \E f \in TelephonyFields : collect_raises(f)
    \/ \E f \in TelephonyFields : retry_raises(f)
    \/ \E op \in ToolOps : tool_raises(op)
    \/ \E raises \in BOOLEAN : handle_status_webhook(raises)
SpecFaults == Init /\ [][NextFaults]_vars

-----------------------------------------------------------------------------
(* Token server, src/token_server.py *)

LIVEKIT_API_KEY == "devkey"

\* api.VideoGrants(...): a privilege not named in the call is not granted.
VideoGrants(room_join, room, room_create, room_admin) ==
    [room_join |-> room_join, room |-> room, room_create |-> room_create,
     room_admin |-> room_admin]

\* api.AccessToken(key, secret).with_identity(..).with_grants(..).to_jwt():
\* the signed statement of who holds which grants.
to_jwt(identity, grants) == [iss |-> LIVEKIT_API_KEY, sub |-> identity, video |-> grants]

Guest == \* "guest"
    <<"g", "u", "e", "s", "t">>

\* What a request body can carry as roomName and as identity: nothing (None),
\* the empty string, or a short text.
RoomNames == {None, EmptyStr} \cup {<<a>> : a \in {"r", "s", "t"}}
                \cup {<<a, b>> : a \in {"r", "s", "t"}, b \in {"1", "2", "3"}}
Identities == {None, EmptyStr} \cup {<<a>> : a \in {"u", "v", "w"}}
                 \cup {<<"u", b>> : b \in {"1", "2"}}

\* A slip: the join token also carries the administration privilege.
get_token_with_admin(roomName, identityGiven) ==
    LET room_name == roomName
        identity == IF identityGiven = None THEN Guest ELSE identityGiven
    IN  /\ driver = "token"
        /\ last' = Called("get_token", <<roomName, identityGiven>>,
                          IF ~Truthy(room_name)
                          THEN <<[error |-> "roomName is required"], 400>>
                          ELSE <<[token |-> to_jwt(identity,
                                                   VideoGrants(TRUE, room_name, FALSE, TRUE))]>>)
        /\ UNCHANGED <<driver, patient_info, step, line, ncalls, conv, parked, heard,
                       nswitch, tasks>>

\* POST /token.  body.get("roomName"), body.get("identity", "guest").
get_token(roomName, identityGiven) ==
    LET room_name == roomName
        identity == IF identityGiven = None THEN Guest ELSE identityGiven
    IN  /\ driver = "token"
        /\ last' = Called("get_token", <<roomName, identityGiven>>,
                          IF ~Truthy(room_name)
                          THEN <<[error |-> "roomName is required"], 400>>
                          ELSE <<[token |-> to_jwt(identity,
                                                   VideoGrants(TRUE, room_name, FALSE, FALSE))]>>)
        /\ UNCHANGED <<driver, patient_info, step, line, ncalls, conv, parked, heard,
                       nswitch, tasks>>

\* POST /create-room.  The administrative token goes into the Authorization
\* header of the request posted to the LiveKit server (recorded in
\* last.dispatch) and is not part of the answer; `raised` says whether
\* anything in the try raised after that request was sent.
create_room(roomName, raised) ==
    LET room_name == roomName
        admin_jwt == to_jwt(EmptyStr, VideoGrants(FALSE, EmptyStr, TRUE, TRUE))
        headers == [Authorization |-> admin_jwt]
    IN  /\ driver = "token"
        /\ last' = IF ~Truthy(room_name)
                   THEN Called("create_room", <<roomName>>,
                               <<[error |-> "roomName is required"], 400>>)
                   ELSE [Called("create_room", <<roomName>>,
                                IF raised
                                THEN <<[success |-> FALSE, error |-> "str(e)"]>>
                                ELSE <<[success |-> TRUE, room |-> room_name]>>)
                         EXCEPT !.dispatch = <<[headers |-> headers, name |-> room_name]>>]
        /\ UNCHANGED <<driver, patient_info, step, line, ncalls, conv, parked, heard,
                       nswitch, tasks>>

InitToken ==
    /\ driver = "token"
    /\ patient_info = InitialRecord
    /\ last = [op |-> "import", args |-> <<>>, result |-> Returned("", <<>>),
               dispatch |-> <<>>, n |-> 1]
    /\ step = "store_patient_name"
    /\ line = Idle
    /\ ncalls = 0
    /\ conv = 1
    /\ parked = [c \in Calls |-> Idle]
    /\ heard = [c \in Calls |-> None]
    /\ nswitch = 0
    /\ tasks = {}
NextToken ==
    \/ \E roomName \in RoomNames, identity \in Identities : get_token(roomName, identity)
    \/ \E roomName \in RoomNames, raised \in BOOLEAN : create_room(roomName, raised)
SpecToken == InitToken /\ [][NextToken]_vars

-----------------------------------------------------------------------------
(* The webhook server with a caller who keeps answering *)

\* The addresses the webhook handlers' validator accepts.
AcceptedAddresses == {a \in Addresses : phone_validation_result[a].valid}

InitLive == Init /\ driver = "webhook"

\* The requests of one call, the first the server takes; the call ends only
\* where its document has no question left open (the caller does not stay
\* silent until the line drops).
NextLive ==
    \/ Requests /\ line'.next # "" /\ ncalls' = 1
    \/ Web(hangup) /\ line.gather = ""

\* Where the call stands: what the document on the line waits for.
position == <<line.gather, line.next, ncalls>>

\* The platform follows every redirect and posts what it hears; the caller
\* sooner or later gives a non-empty answer to each question and an address
\* the validator accepts.
Answering ==
    /\ WF_position(Answer(handle_voice_webhook(CallerId)))
    /\ WF_position(Web(hangup) /\ line.gather = "")
    /\ WF_position(Web(retry_name)) /\ WF_position(Web(retry_dob)) /\ WF_position(Web(retry_insurance))
    /\ WF_position(Web(retry_insurance_id)) /\ WF_position(Web(retry_referral))
    /\ WF_position(Web(retry_physician)) /\ WF_position(Web(retry_complaint))
    /\ WF_position(Web(retry_address)) /\ WF_position(Web(retry_contact))
    /\ SF_position(\E sr \in Names : Answer(collect_name(sr, CallerId)))
    /\ SF_position(\E sr \in Dobs : Web(collect_dob(sr)))
    /\ SF_position(\E sr \in Payers : Web(collect_insurance(sr)))
    /\ SF_position(\E sr \in MemberIds : Web(collect_insurance_id(sr, None)))
    /\ SF_position(\E sr \in {SayYes, SayNo} : Web(collect_referral(sr)))
    /\ SF_position(\E sr \in Physicians : Web(collect_physician(sr)))
    /\ SF_position(\E sr \in Complaints : Web(collect_complaint(sr)))
    /\ SF_position(\E sr \in AcceptedAddresses : Web(collect_address(sr)))
    /\ SF_position(\E sr \in Phones : Web(collect_contact(sr, None, CallerId)))
    /\ WF_position(\E sr \in Emails \cup {None} : Web(collect_email(sr)))

SpecLive == InitLive /\ [][NextLive]_vars /\ Answering

-----------------------------------------------------------------------------
(* Properties *)

Populated(v) == Truthy(v)

StageRank(stage) ==
    CASE stage = "greeting" -> 1
      [] stage = "name" -> 2
      [] stage = "dob" -> 3
      [] stage = "insurance" -> 4
      [] stage = "referral" -> 5
      [] stage = "complaint" -> 6
      [] stage = "address" -> 7
      [] stage = "contact" -> 8
      [] stage \in {"appointments", "scheduling"} -> 9
      [] stage = "complete" -> 10

ToolDrivers == {"agent", "phone"}

\* The verdict of the running program's validator.
Verdict(address) ==
    IF driver = "agent" THEN agent_validation_result[address]
    ELSE phone_validation_result[address]

RequiredFields ==
    {"name", "date_of_birth", "insurance_payer", "insurance_id", "chief_complaint",
     "address", "phone"}
OptionalFields == {"referral_physician", "email"}

\* C1 as stated: after the tools were called in canonical order with
\* well-formed inputs from the initial record, every field of the record is
\* populated and stage is complete.
C1_EveryFieldPopulated ==
    step = "done" =>
        /\ \A f \in RequiredFields \cup OptionalFields : Populated(patient_info[f])
        /\ patient_info.has_referral # None
        /\ patient_info.stage = "complete"

\* C1 amended: after the tools were called in canonical order with well-formed
\* inputs from the initial record, every required field (name, date of birth,
\* insurer and member id, has_referral, complaint, address, phone) is
\* populated, the address is a validated one and stage is complete; the
\* referring physician and the email may be empty or absent.
C1_RequiredFieldsPopulated ==
    step = "done" =>
        /\ \A f \in RequiredFields : Populated(patient_info[f])
        /\ patient_info.has_referral \in {PyTrue, PyFalse}
        /\ patient_info.address_valid = PyTrue
        /\ patient_info.stage = "complete"

C1_Witness ==
    /\ step = "done"
    /\ patient_info.has_referral = PyFalse
    /\ ~Populated(patient_info.referral_physician)
    /\ ~Populated(patient_info.email)

\* C2 as stated: no step of any operation moves stage to an earlier position
\* of the canonical order.
C2_StageNeverMovesBack ==
    [][StageRank(patient_info'.stage) >= StageRank(patient_info.stage)]_vars

\* C2 amended: while the tools are called in canonical order from the initial
\* record (and in every webhook call), each step leaves stage unchanged or
\* moves it forward, and while the address is being asked for again stage
\* stays at address.
C2_StageAdvancesInOrder ==
    [][step' # "off" =>
          /\ StageRank(patient_info'.stage) >= StageRank(patient_info.stage)
          /\ (step = "store_and_validate_address" /\ step' = step
                 => patient_info'.stage = "address")]_vars

C2_Witness ==
    /\ step = "store_and_validate_address"
    /\ last.op = "store_and_validate_address"
    /\ last.n >= 2
    /\ patient_info.address_valid = PyFalse
    /\ patient_info.stage = "address"

\* The checks of each validator that an address fails.
agent_failed_checks(address) ==
    {c \in {StreetNumber, City, State, ZipCode} :
        \/ c = StreetNumber /\ ~agent_has_numbers(address)
        \/ c = City /\ ~agent_has_city(address)
        \/ c = State /\ ~agent_has_state(address)
        \/ c = ZipCode /\ ~agent_has_zip(address)}

phone_failed_checks(address) ==
    {c \in {"digit", "comma", "four words"} :
        \/ c = "digit" /\ ~phone_has_numbers(address)
        \/ c = "comma" /\ ~phone_has_comma(address)
        \/ c = "four words" /\ phone_word_count(address) < 4}

Listed(seq) == {seq[k] : k \in 1..Len(seq)}

\* C3: a rejected address submitted at the address step is stored, with
\* address_valid false and stage still address, and the message names exactly
\* the checks that failed.
C3_RejectedAddressReported ==
    (/\ driver \in ToolDrivers
     /\ last.op = "store_and_validate_address"
     /\ step = "store_and_validate_address"
     /\ ~Verdict(last.args[1]).valid)
    => /\ patient_info.address = last.args[1]
       /\ patient_info.address_valid = PyFalse
       /\ patient_info.stage = "address"
       /\ IF driver = "agent"
          THEN Listed(last.result.data) = agent_failed_checks(last.args[1])
          ELSE Len(last.result.data) = Cardinality(phone_failed_checks(last.args[1]))

\* C4: after the address tool is called with an address the validator accepts,
\* whatever the record held before, the address is stored, address_valid is
\* true and stage is contact.
C4_AcceptedAddressStored ==
    (/\ driver \in ToolDrivers
     /\ last.op = "store_and_validate_address"
     /\ Verdict(last.args[1]).valid)
    => /\ patient_info.address = last.args[1]
       /\ patient_info.address_valid = PyTrue
       /\ patient_info.stage = "contact"

\* Reached by submitting a good address before the complaint was ever given.
C4_Witness ==
    /\ driver \in ToolDrivers
    /\ last.op = "store_and_validate_address"
    /\ Verdict(last.args[1]).valid
    /\ patient_info.chief_complaint = None
    /\ patient_info.stage = "contact"

\* C5: submitting again the address that was just rejected returns the same
\* message and leaves the record as the first submission left it, however
\* often it is repeated.
C5_RejectedAddressIdempotent ==
    [][(/\ last.op = "store_and_validate_address"
        /\ patient_info.address_valid = PyFalse
        /\ last'.op = "store_and_validate_address"
        /\ last'.args = last.args)
       => /\ patient_info' = patient_info
          /\ last'.result = last.result
          /\ last'.n >= last.n]_vars

C5_Witness ==
    /\ driver \in ToolDrivers
    /\ last.op = "store_and_validate_address"
    /\ last.n = MaxRepeat
    /\ patient_info.address_valid = PyFalse
    /\ patient_info.address = last.args[1]

\* C6: after the referral tool is called with has_referral false, the
\* referring physician is empty or absent, whatever physician was passed.
C6_NoReferralNoPhysician ==
    (last.op = "store_referral_info" /\ last.args[1] = PyFalse)
    => ~Populated(patient_info.referral_physician)

\* C7: the referring physician is non-empty only if has_referral is true.
C7_PhysicianOnlyWithReferral ==
    Populated(patient_info.referral_physician) => patient_info.has_referral = PyTrue

\* The stored value is the argument, an absent or empty argument being stored
\* as absent or empty.
StoredAs(stored, arg) == IF Truthy(arg) THEN stored = arg ELSE ~Truthy(stored)

ToolPostcondition ==
    /\ last.op = "store_patient_name" =>
          patient_info.name = last.args[1] /\ patient_info.stage = "dob"
    /\ last.op = "store_date_of_birth" =>
          patient_info.date_of_birth = last.args[1] /\ patient_info.stage = "insurance"
    /\ last.op = "store_insurance" =>
          /\ patient_info.insurance_payer = last.args[1]
          /\ patient_info.insurance_id = last.args[2]
          /\ patient_info.stage = "referral"
    /\ last.op = "store_referral_info" =>
          /\ patient_info.has_referral = last.args[1]
          /\ last.args[1] = PyTrue =>
                StoredAs(patient_info.referral_physician, last.args[2])
          /\ patient_info.stage = "complaint"
    /\ last.op = "store_chief_complaint" =>
          patient_info.chief_complaint = last.args[1] /\ patient_info.stage = "address"
    /\ last.op = "store_and_validate_address" =>
          /\ patient_info.address = last.args[1]
          /\ Verdict(last.args[1]).valid => patient_info.stage = "contact"
    /\ last.op = "store_contact_info" =>
          /\ patient_info.phone = last.args[1]
          /\ StoredAs(patient_info.email, last.args[2])
          /\ patient_info.stage = IF driver = "agent" THEN "scheduling" ELSE "appointments"
    /\ last.op = "get_available_appointments" => patient_info.stage = "complete"

ToolsEnabled ==
    /\ driver = "agent" =>
          /\ \A name \in Names :
                ENABLED Tool("store_patient_name", agent_store_patient_name(name))
          /\ \A dob \in Dobs :
                ENABLED Tool("store_date_of_birth", agent_store_date_of_birth(dob))
          /\ \A p \in Payers, i \in MemberIds :
                ENABLED Tool("store_insurance", agent_store_insurance(p, i))
          /\ \A h \in BOOLEAN, p \in OptPhysicians :
                ENABLED Tool("store_referral_info", agent_store_referral_info(h, p))
          /\ \A c \in Complaints :
                ENABLED Tool("store_chief_complaint", agent_store_chief_complaint(c))
          /\ \A a \in Addresses :
                ENABLED Tool("store_and_validate_address",
                             agent_store_and_validate_address(a))
          /\ \A p \in Phones, e \in OptEmails :
                ENABLED Tool("store_contact_info", agent_store_contact_info(p, e))
          /\ ENABLED Tool("get_available_appointments", agent_get_available_appointments)
    /\ driver = "phone" =>
          /\ \A name \in Names :
                ENABLED Tool("store_patient_name", phone_store_patient_name(name))
          /\ \A dob \in Dobs :
                ENABLED Tool("store_date_of_birth", phone_store_date_of_birth(dob))
          /\ \A p \in Payers, i \in MemberIds :
                ENABLED Tool("store_insurance", phone_store_insurance(p, i))
          /\ \A h \in BOOLEAN, p \in OptPhysicians :
                ENABLED Tool("store_referral_info", phone_store_referral_info(h, p))
          /\ \A c \in Complaints :
                ENABLED Tool("store_chief_complaint", phone_store_chief_complaint(c))
          /\ \A a \in Addresses :
                ENABLED Tool("store_and_validate_address",
                             phone_store_and_validate_address(a))
          /\ \A p \in Phones, e \in OptEmails :
                ENABLED Tool("store_contact_info", phone_store_contact_info(p, e))
          /\ ENABLED Tool("get_available_appointments", phone_get_available_appointments)

\* C8: every field-collecting tool can be called in every state of the record,
\* and whatever the stage was, it stores its arguments in its fields and sets
\* stage to its own successor.
C8_ToolsUnconditional == ToolsEnabled /\ ToolPostcondition

\* The name tool called in a record whose contact step is already behind it.
C8_Witness ==
    /\ driver = "agent"
    /\ step = "off"
    /\ last.op = "store_patient_name"
    /\ patient_info.name = last.args[1]
    /\ patient_info.phone # None
    /\ patient_info.stage = "dob"

\* The stages at which a handler's own step is the current one.
OwnStages(op) ==
    CASE op \in {"store_patient_name", "collect_name"} -> {"greeting", "name"}
      [] op \in {"store_date_of_birth", "collect_dob"} -> {"dob"}
      [] op \in {"store_insurance", "collect_insurance", "collect_insurance_id"} ->
            {"insurance"}
      [] op \in {"store_referral_info", "collect_referral", "collect_physician"} ->
            {"referral"}
      [] op \in {"store_chief_complaint", "collect_complaint"} -> {"complaint"}
      [] op \in {"store_and_validate_address", "collect_address"} -> {"address"}
      [] op \in {"store_contact_info", "collect_contact", "collect_email"} -> {"contact"}
      [] op = "get_available_appointments" -> {"appointments", "scheduling"}
      [] OTHER -> {}

Mutators ==
    {"store_patient_name", "store_date_of_birth", "store_insurance",
     "store_referral_info", "store_chief_complaint", "store_and_validate_address",
     "store_contact_info", "get_available_appointments", "run_agent_in_room",
     "collect_name", "collect_dob", "collect_insurance", "collect_insurance_id",
     "collect_referral", "collect_physician", "collect_complaint", "collect_address",
     "collect_contact", "collect_email"}

Unquoted(json) == SubSeq(json, 2, Len(json) - 1)

SummaryReflectsRecord ==
    last.op = "get_patient_summary" =>
        /\ DOMAIN last.result.data = DOMAIN patient_info
        /\ \A k \in DOMAIN patient_info \ {"stage", "address_valid", "has_referral"} :
              IF patient_info[k] = None
              THEN last.result.data[k] = <<"n", "u", "l", "l">>
              ELSE /\ Head(last.result.data[k]) = "\""
                   /\ Unquoted(last.result.data[k]) = patient_info[k]
        /\ last.result.data["stage"] = <<"\"", patient_info.stage, "\"">>
        /\ last.result.data["address_valid"] =
              (IF patient_info.address_valid = PyTrue THEN <<"t", "r", "u", "e">>
               ELSE <<"f", "a", "l", "s", "e">>)
        /\ last.result.data["has_referral"] =
              (IF patient_info.has_referral = None THEN <<"n", "u", "l", "l">>
               ELSE IF patient_info.has_referral = PyTrue THEN <<"t", "r", "u", "e">>
               ELSE <<"f", "a", "l", "s", "e">>)

SummaryEnabled ==
    /\ driver = "agent" => ENABLED Aside(agent_get_patient_summary)
    /\ driver = "phone" => ENABLED Aside(phone_get_patient_summary)

\* C10: the summary can be asked for in every state of the record, changes no
\* field of it, and gives the current value of every field, an unfilled one
\* as null.
C10_SummaryReadOnly ==
    /\ [](SummaryEnabled /\ SummaryReflectsRecord)
    /\ [][last'.op = "get_patient_summary" => patient_info' = patient_info]_vars

\* A summary of a half-filled record.
C10_Witness ==
    /\ last.op = "get_patient_summary"
    /\ patient_info.name = JaneDoe
    /\ patient_info.email = None
    /\ last.result.data["name"] = <<"\"">> \o JaneDoe \o <<"\"">>
    /\ last.result.data["email"] = <<"n", "u", "l", "l">>

CompletionSteps == {"get_available_appointments", "collect_email"}

\* C11: the step that sets stage to complete (get_available_appointments in
\* either program, collect_email in the webhook server) calls
\* send_patient_info_email exactly once, also when it returns False, and no
\* other step calls it.
C11_DispatchedOnceAtCompletion ==
    /\ last.op \in CompletionSteps => Len(last.dispatch) = 1
    /\ last.op \notin CompletionSteps => Len(last.dispatch) = 0

\* C12: in the telephony tool get_available_appointments, whether
\* send_patient_info_email returned True or False, stage is complete afterwards
\* and the same listing is returned; only the trailing sentence follows the
\* outcome.
C12_ListingWhateverDispatch ==
    (driver = "phone" /\ last.op = "get_available_appointments")
    => /\ Len(last.dispatch) = 1
       /\ patient_info.stage = "complete"
       /\ last.result.text = "Here are the available appointments:"
       /\ last.result.data.count = 3
       /\ last.result.data.trailing =
             (IF last.dispatch[1].returned = PyTrue THEN InformationSent
              ELSE IssueSending)

\* The listing returned after a failed dispatch.
C12_Witness ==
    /\ driver = "phone"
    /\ last.op = "get_available_appointments"
    /\ last.dispatch[1].returned = PyFalse
    /\ patient_info.stage = "complete"
    /\ last.result.data.trailing = IssueSending

\* C13: when send_patient_info_email returns False at completion, the step
\* still completes (stage complete, its message returned) and the message
\* carries a warning about the failure: the tool's trailing sentence, and in
\* collect_email a sentence other than those said after a successful dispatch.
C13_DispatchFailureWarned ==
    (/\ last.op \in CompletionSteps
     /\ Len(last.dispatch) = 1
     /\ last.dispatch[1].returned = PyFalse)
    => /\ patient_info.stage = "complete"
       /\ last.op = "get_available_appointments" =>
             last.result.data.trailing = IssueSending
       /\ last.op = "collect_email" =>
             \E k \in 3..Len(last.result.say) :
                last.result.say[k] \notin {ConfirmationSent, ThankYouGoodbye}

\* C14: calls share no state: whatever requests of other open calls came in
\* between, the record mailed when a call completes carries the name that was
\* given in that call.
C14_CallsIsolated ==
    [][(/\ conv' = conv
        /\ line.next # "hangup"
        /\ line'.next = "hangup"
        /\ last'.op = "collect_email")
       => last'.dispatch[1].patient_data.name = heard[conv]]_vars

SessionStarts == {"entrypoint", "run_agent_in_room", "handle_voice_webhook"}

\* C16: when a session or call has just started, also the second or a later
\* one the process handles, the record is the empty one (stage greeting,
\* address_valid false, every field absent), except for the caller's number
\* that run_agent_in_room was given.
C16_RecordEmptyAtStart ==
    last.op \in SessionStarts =>
        \/ patient_info = InitialRecord
        \/ /\ last.op = "run_agent_in_room"
           /\ patient_info = [InitialRecord EXCEPT !.phone = last.args[1]]

RequiredTelephonyFields == {f \in TelephonyFields : f.collect # "collect_email"}

\* What the caller said or keyed in the request just answered.
SpokenIn(request) ==
    IF request.op \in {"collect_insurance_id", "collect_contact"}
    THEN Strip(SpeechOrDigits(request.args[1], request.args[2]))
    ELSE Strip(FormGet(request.args[1]))

Spoken == SpokenIn(last)

\* On empty input a collect handler only redirects to its retry route; a
\* retry handler gathers once more for its collect route and then ends the call.
FollowsRetryPattern(f) ==
    /\ (last.op = f.collect /\ Spoken = EmptyStr)
          => last.result.gather = "" /\ last.result.next = f.retry_url
    /\ last.op = f.retry
          => last.result.gather = f.collect_url /\ last.result.next = "hangup"

C18_SingleRetry ==
    [][\A f \in TelephonyFields :
          (/\ last.op = f.retry
           /\ line.gather = f.collect_url
           /\ last'.op = f.collect
           /\ SpokenIn(last') = EmptyStr)
          => line'.next = "hangup" /\ line'.gather = ""]_vars

\* C19: in a call, the address is asked for again once: when the address given
\* after a rejection is rejected too, collect-address is not gathered for
\* again.
C19_AddressLoopBounded ==
    [][(/\ driver = "webhook"
        /\ last.op = "collect_address"
        /\ Truthy(SpokenIn(last))
        /\ line.gather = "/voice/collect-address"
        /\ last'.op = "collect_address"
        /\ Truthy(SpokenIn(last'))
        /\ patient_info'.address_valid = PyFalse)
       => line'.gather # "/voice/collect-address"]_vars

WordBreaks == SpaceChars \cup {","}

\* w stands in s as a word of its own.
OccursAsWord(s, w) ==
    \E i \in 1..(Len(s) - Len(w) + 1) :
        /\ SubSeq(s, i, i + Len(w) - 1) = w
        /\ i = 1 \/ s[i - 1] \in WordBreaks
        /\ i + Len(w) - 1 = Len(s) \/ s[i + Len(w)] \in WordBreaks

HasStateToken(address) ==
    \E k \in 1..Len(agent_states) : OccursAsWord(Lower(address), agent_states[k])

\* C20: the validator of src/agent.py answers valid exactly when the address
\* has a digit, a state of its list standing as a word of its own, a
\* five-digit word, and at least two comma-separated parts.
C20_ValidIffFourChecks ==
    driver = "agent" /\ last.op = "validate_address" =>
        (last.result.valid <=>
            /\ AnyDigit(last.args[1])
            /\ HasStateToken(last.args[1])
            /\ agent_has_zip(last.args[1])
            /\ Len(SplitOn(last.args[1], ",")) >= 2)

\* The names of the four checks an address fails, in the fixed order.
FailedChecks(address) ==
    (IF ~AnyDigit(address) THEN <<StreetNumber>> ELSE <<>>)
    \o (IF Len(SplitOn(address, ",")) < 2 THEN <<City>> ELSE <<>>)
    \o (IF ~HasStateToken(address) THEN <<State>> ELSE <<>>)
    \o (IF ~(\E k \in 1..Len(Split(address)) :
                IsDigitStr(Split(address)[k]) /\ Len(Split(address)[k]) = 5)
        THEN <<ZipCode>> ELSE <<>>)

\* C21: for every address, missing_fields of the validator of src/agent.py is
\* the list of the checks that failed (digit, comma-separated parts, state as
\* a word of its own, five-digit word), in the order street number, city,
\* state, ZIP code, and valid is true exactly when missing_fields is empty.
C21_MissingExactlyFailed ==
    driver = "agent" /\ last.op = "validate_address" =>
        /\ last.result.missing_fields = FailedChecks(last.args[1])
        /\ last.result.valid <=> last.result.missing_fields = <<>>

\* C22: in src/agent.py, when the tools are called in the instructed order
\* from the initial record, the submission of "1 Elm St, Boston, MA, 02108" at
\* the address step is accepted (address_valid true, stage contact right after
\* it), and get_available_appointments at the end returns a listing that is
\* not empty and leaves stage complete.
C22_ScenarioAccepted ==
    [][driver = "agent" =>
          /\ (/\ step = "store_and_validate_address"
              /\ last'.op = "store_and_validate_address"
              /\ last'.args = <<AddrElm>>)
             => /\ patient_info'.address_valid = PyTrue
                /\ patient_info'.stage = "contact"
          /\ (step = "get_available_appointments" /\ step' = "done")
             => /\ Len(last'.result.data) > 0
                /\ patient_info'.stage = "complete"]_vars

\* C23: the validator of src/phone_agent.py answers valid exactly when the
\* address has a digit, has a comma, and splits on whitespace into at least
\* four words.
C23_TelephonyValidIffThree ==
    driver = "phone" /\ last.op = "validate_address" =>
        (last.result.valid <=>
            /\ \E i \in 1..Len(last.args[1]) : last.args[1][i] \in DigitChars
            /\ \E i \in 1..Len(last.args[1]) : last.args[1][i] = ","
            /\ Len(Split(last.args[1])) >= 4)

\* An address with a digit and a comma is turned down for having three words.
C23_Witness ==
    /\ driver = "phone"
    /\ last.op = "validate_address"
    /\ AnyDigit(last.args[1])
    /\ Contains(last.args[1], <<",">>)
    /\ Len(Split(last.args[1])) = 3
    /\ ~last.result.valid

\* What the program says to the caller about a rejected address: the
\* components named in the tool's message or in the spoken document.
NamedComponents ==
    IF driver = "webhook" THEN last.result.say[2] ELSE last.result.data

\* The last step turned an address down.
AddressRejected ==
    \/ /\ driver \in ToolDrivers
       /\ last.op = "store_and_validate_address"
       /\ patient_info.address_valid = PyFalse
    \/ /\ driver = "webhook"
       /\ last.op = "collect_address"
       /\ last.result.gather = "/voice/collect-address"

\* C24: whenever an address is turned down, by a tool of either program or by
\* the collect-address webhook, the message names at least one component and
\* names one for each check that failed, no more and no fewer.
C24_RejectionNamesComponents ==
    AddressRejected =>
        /\ Len(NamedComponents) >= 1
        /\ IF driver = "agent"
           THEN Listed(NamedComponents) = agent_failed_checks(last.args[1])
           ELSE Len(NamedComponents)
                   = Cardinality(phone_failed_checks(Strip(last.args[1])))

\* The listing returned by get_available_appointments of src/agent.py.
Listing == last.result.data
ListedBy(provider) == {k \in 1..Len(Listing) : Listing[k].provider = provider}
ListedProviders == {Listing[k].provider : k \in 1..Len(Listing)}
Roster == {AVAILABLE_PROVIDERS[k] : k \in 1..Len(AVAILABLE_PROVIDERS)}

\* The hour on the 24-hour clock and the datetime order of a listed time.
Hour24(datetime) ==
    IF datetime.p = "PM" /\ datetime.I # 12 THEN datetime.I + 12
    ELSE IF datetime.p = "AM" /\ datetime.I = 12 THEN 0
    ELSE datetime.I
ListedStamp(datetime) == (datetime.date * 24 + Hour24(datetime)) * 60 + datetime.M

\* C25: the listing of get_available_appointments of src/agent.py has four
\* appointments, of exactly two different providers of the roster, two
\* appointments for each.
C25_TwoProvidersTwoSlots ==
    driver = "agent" /\ last.op = "get_available_appointments" =>
        /\ Len(Listing) = 4
        /\ Cardinality(ListedProviders) = 2
        /\ ListedProviders \subseteq Roster
        /\ \A provider \in ListedProviders : Cardinality(ListedBy(provider)) = 2

\* A listing whose second provider stands before the first in the roster and
\* whose four times are all different.
C25_Witness ==
    /\ driver = "agent"
    /\ last.op = "get_available_appointments"
    /\ Listing[1].provider = AVAILABLE_PROVIDERS[4]
    /\ Listing[3].provider = AVAILABLE_PROVIDERS[2]
    /\ Cardinality({Listing[k].datetime : k \in 1..Len(Listing)}) = 4

\* C26: every listed slot is on a date one to seven days after today, at one
\* of the hours 9, 10, 11, 14, 15, 16, on the hour or the half hour.
C26_SlotsWithinSevenDays ==
    driver = "agent" /\ last.op = "get_available_appointments" =>
        \A k \in 1..Len(Listing) :
            /\ Listing[k].datetime.date \in 1..7
            /\ Hour24(Listing[k].datetime) \in {9, 10, 11, 14, 15, 16}
            /\ Listing[k].datetime.M \in {0, 30}

\* C27: the listing is in ascending order of datetime from its first
\* appointment to its last.
C27_ListingSorted ==
    driver = "agent" /\ last.op = "get_available_appointments" =>
        \A k \in 1..(Len(Listing) - 1) :
            ListedStamp(Listing[k].datetime) <= ListedStamp(Listing[k + 1].datetime)

\* C28: in every state the record holds an insurer exactly when it holds a
\* member id; right after a submission of insurance both are the ones
\* submitted together; and stage is referral once both are stored.
C28_InsuranceAtomic ==
    /\ patient_info.insurance_payer = None <=> patient_info.insurance_id = None
    /\ last.op = "store_insurance" =>
          /\ patient_info.insurance_payer = last.args[1]
          /\ patient_info.insurance_id = last.args[2]
          /\ patient_info.stage = "referral"
    /\ (last.op = "collect_insurance_id" /\ Truthy(Spoken)) =>
          patient_info.stage = "referral"

\* The last handler let an exception out.
Propagated == "exception" \in DOMAIN last.result

\* C29: no tool and no collect, retry or status handler lets an exception
\* out: a handler that raises answers with the generic apology.
C29_ExceptionsCaught == ~Propagated

\* The step whose answer the platform is told to post next, after a collect
\* handler took a non-empty answer.
StepAfter(op, record) ==
    CASE op = "collect_name" -> "/voice/collect-dob"
      [] op = "collect_dob" -> "/voice/collect-insurance"
      [] op = "collect_insurance" -> "/voice/collect-insurance-id"
      [] op = "collect_insurance_id" -> "/voice/collect-referral"
      [] op = "collect_referral" ->
            IF record.has_referral = PyTrue THEN "/voice/collect-physician"
            ELSE "/voice/collect-complaint"
      [] op = "collect_physician" -> "/voice/collect-complaint"
      [] op = "collect_complaint" -> "/voice/collect-address"
      [] op = "collect_address" ->
            IF record.address_valid = PyTrue THEN "/voice/collect-contact"
            ELSE "/voice/collect-address"
      [] op = "collect_contact" -> "/voice/collect-email"
      [] op = "collect_email" -> ""

\* C30: in a call, the incoming-call handler gathers for the name, and each
\* collect handler that takes a non-empty answer gathers for the step that
\* follows its own in the order name, dob, insurance, insurance-id, referral,
\* physician, complaint, address, contact, email: the physician step follows
\* the referral step exactly when has_referral was recorded true, a rejected
\* address is gathered again, and the email step ends the call with stage
\* complete.
C30_CanonicalOrder ==
    [][driver = "webhook" =>
          /\ (line = Idle /\ ncalls' = ncalls + 1)
                => line'.gather = "/voice/collect-name"
          /\ \A f \in TelephonyFields :
                (/\ line.gather = f.collect_url
                 /\ last'.op = f.collect
                 /\ line'.next # ""
                 /\ Truthy(SpokenIn(last')))
                => /\ line'.gather = StepAfter(f.collect, patient_info')
                   /\ f.collect = "collect_email"
                         => line'.next = "hangup" /\ patient_info'.stage = "complete"]_vars

\* A first call went through every step, the physician step included, to the
\* end.
C30_Witness ==
    /\ driver = "webhook"
    /\ ncalls = 1
    /\ last.op = "collect_email"
    /\ Truthy(Spoken)
    /\ line.next = "hangup"
    /\ patient_info.has_referral = PyTrue
    /\ Truthy(patient_info.referral_physician)
    /\ patient_info.address_valid = PyTrue
    /\ patient_info.stage = "complete"

\* The stage the core operations give the record after each step.
StageAfter(op, record) ==
    CASE op = "collect_name" -> "dob"
      [] op = "collect_dob" -> "insurance"
      [] op = "collect_insurance" -> record.stage
      [] op = "collect_insurance_id" -> "referral"
      [] op = "collect_referral" ->
            IF record.has_referral = PyTrue THEN record.stage ELSE "complaint"
      [] op = "collect_physician" -> "complaint"
      [] op = "collect_complaint" -> "address"
      [] op = "collect_address" ->
            IF record.address_valid = PyTrue THEN "contact" ELSE record.stage
      [] op = "collect_contact" -> "appointments"
      [] op = "collect_email" -> "complete"

\* C31: in a call, after a collect handler took a non-empty answer the stage
\* of the record is the one the core operation for that step sets: dob after
\* the name, insurance after the date of birth, referral after the member id,
\* complaint after the referral answer or the physician, address after the
\* complaint, contact after an accepted address, appointments after the phone
\* number and complete after the email step.
C31_StageTracksSteps ==
    [][driver = "webhook" =>
          \A f \in TelephonyFields :
             (/\ line.gather = f.collect_url
              /\ last'.op = f.collect
              /\ line'.next # ""
              /\ Truthy(SpokenIn(last')))
             => patient_info'.stage = StageAfter(f.collect, patient_info')]_vars

HasAppointment(record) == "appointment" \in DOMAIN record

\* C32: the record gets or changes an appointment only in a collect-email
\* step of the webhook server; the appointment it then holds is the first of
\* the generated slots and is the one in the record handed to
\* send_patient_info_email in that step.  The tools of either program never
\* set it.
C32_AppointmentOnlyAtCompletion ==
    [][/\ (HasAppointment(patient_info')
            /\ (HasAppointment(patient_info)
                   => patient_info'.appointment # patient_info.appointment))
          => /\ driver = "webhook"
             /\ last'.op = "collect_email"
             /\ line.next # "hangup"
             /\ line'.next = "hangup"
       /\ (last'.op = "collect_email" /\ line.next # "hangup" /\ line'.next = "hangup")
          => /\ HasAppointment(patient_info')
             /\ patient_info'.appointment \in generate_appointment(0)
             /\ Len(last'.dispatch) = 1
             /\ last'.dispatch[1].patient_data.appointment = patient_info'.appointment
       /\ driver \in ToolDrivers => ~HasAppointment(patient_info')]_vars

\* The email step of a call has booked the first slot and the mail could not
\* be sent.
C32_Witness ==
    /\ driver = "webhook"
    /\ last.op = "collect_email"
    /\ line.next = "hangup"
    /\ HasAppointment(patient_info)
    /\ last.dispatch[1].returned = PyFalse
    /\ last.dispatch[1].patient_data.appointment = patient_info.appointment

\* What the last request handed back to its caller.
Answered == last.result[1]

\* C33: POST /token hands out a token exactly when the request names a
\* non-empty room, and answers with an error and no token otherwise; the
\* token is a join grant for the room asked for, without the privilege to
\* create or administer rooms; the only token with those privileges is the
\* one create_room builds for its own request to the LiveKit server, which is
\* not in what create_room answers with and is built only for a named room.
C33_JoinGrantOnly ==
    /\ last.op = "get_token" =>
          /\ "token" \in DOMAIN Answered <=> Truthy(last.args[1])
          /\ "token" \notin DOMAIN Answered => "error" \in DOMAIN Answered
          /\ "token" \in DOMAIN Answered =>
                /\ Answered.token.video.room_join
                /\ Answered.token.video.room = last.args[1]
                /\ ~Answered.token.video.room_create
                /\ ~Answered.token.video.room_admin
    /\ last.op = "create_room" =>
          /\ "token" \notin DOMAIN Answered
          /\ \A i \in 1..Len(last.dispatch) :
                /\ Truthy(last.args[1])
                /\ last.dispatch[i].headers.Authorization.video.room_create
                /\ last.dispatch[i].headers.Authorization.video.room_admin
    /\ last.op = "get_token" => last.dispatch = <<>>

\* A token was handed out for a room to a caller that gave no identity.
C33_Witness ==
    /\ last.op = "get_token"
    /\ last.args[2] = None
    /\ "token" \in DOMAIN Answered
    /\ Answered.token.sub = Guest
    /\ Answered.token.video.room = last.args[1]

\* C34: in every reachable state address_valid is the verdict of the running
\* program's validator on the stored address: false while no address is
\* stored, and otherwise true exactly when the validator accepts the stored
\* address.
C34_FlagIsVerdict ==
    IF patient_info.address = None
    THEN patient_info.address_valid = PyFalse
    ELSE patient_info.address_valid = PyBool(Verdict(patient_info.address).valid)

\* An accepted address was replaced by a rejected one and the flag followed.
C34_Witness ==
    /\ last.op \in {"store_and_validate_address", "collect_address"}
    /\ last.n = 1
    /\ patient_info.address # None
    /\ patient_info.address = (IF last.op = "collect_address"
                               THEN Strip(FormGet(last.args[1])) ELSE last.args[1])
    /\ ~Verdict(patient_info.address).valid
    /\ patient_info.address_valid = PyFalse
    /\ patient_info.stage \in {"contact", "complete"}

\* The call is past its address question: the document on the line asks for
\* the contact number or the email, or the call has completed.
PastAddress ==
    \/ line.gather \in {"/voice/collect-contact", "/voice/collect-email"}
    \/ line.next \in {"/voice/retry-contact", "/voice/retry-email", "/voice/collect-email"}
    \/ last.op = "collect_email"

\* C35: in a webhook call, the address handler answers with the contact
\* prompt exactly when the address it was given validated, the contact and
\* email questions are on the line only while the record holds a non-empty
\* address with address_valid true, and a completed call (stage complete,
\* dispatch invoked) has such a record.
C35_ContactOnlyAfterValidAddress ==
    /\ [](driver = "webhook" /\ PastAddress
            => patient_info.address_valid = PyTrue /\ Truthy(patient_info.address))
    /\ [](driver = "webhook" /\ last.op = "collect_email"
            => patient_info.stage = "complete" /\ Len(last.dispatch) = 1)
    /\ [][(last'.op = "collect_address" /\ line.gather = "/voice/collect-address"
            /\ line'.next # "")
           => (line'.gather = "/voice/collect-contact"
                 <=> /\ Truthy(Strip(FormGet(last'.args[1])))
                     /\ phone_validation_result[Strip(FormGet(last'.args[1]))].valid)]_vars

\* A second call on the same record completed after its own address validated.
C35_Witness ==
    /\ driver = "webhook"
    /\ last.op = "collect_email"
    /\ ncalls = 2
    /\ patient_info.stage = "complete"
    /\ patient_info.address_valid = PyTrue

\* The call now on the line has completed.
Completed ==
    /\ last.op = "collect_email"
    /\ patient_info.stage = "complete"
    /\ Len(last.dispatch) = 1

\* C36: a call that starts at /voice/incoming and whose caller sooner or
\* later answers every question with non-empty input and gives an address
\* the validator accepts reaches collect-email, where stage becomes complete
\* and the dispatch is invoked; on the way no handler answers with a document
\* that ends the call.
C36_CallCompletes ==
    /\ (last.op = "handle_voice_webhook") ~> Completed
    /\ [][(line'.gather = "" /\ line'.next = "hangup") => last'.op = "collect_email"]_vars

\* A call completed for a caller who had no referral.
C36_Witness ==
    /\ Completed
    /\ line.next = "hangup"
    /\ ncalls = 1
    /\ patient_info.has_referral = PyFalse
    /\ patient_info.address \in AcceptedAddresses

\* The fields an operation is there to collect.
Targets(op) ==
    CASE op \in {"store_patient_name", "collect_name"} -> {"name"}
      [] op \in {"store_date_of_birth", "collect_dob"} -> {"date_of_birth"}
      [] op = "store_insurance" -> {"insurance_payer", "insurance_id"}
      [] op = "collect_insurance" -> {"insurance_payer"}
      [] op = "collect_insurance_id" -> {"insurance_id"}
      [] op \in {"store_referral_info", "collect_referral"}
            -> {"has_referral", "referral_physician"}
      [] op = "collect_physician" -> {"referral_physician"}
      [] op \in {"store_chief_complaint", "collect_complaint"} -> {"chief_complaint"}
      [] op \in {"store_and_validate_address", "collect_address"} -> {"address", "address_valid"}
      [] op = "store_contact_info" -> {"phone", "email"}
      [] op = "collect_contact" -> {"phone"}
      [] op = "collect_email" -> {"email", "appointment"}
      [] OTHER -> {}

\* The operations that collect fields.
Collectors ==
    {"store_patient_name", "store_date_of_birth", "store_insurance", "store_referral_info",
     "store_chief_complaint", "store_and_validate_address", "store_contact_info",
     "collect_name", "collect_dob", "collect_insurance", "collect_insurance_id",
     "collect_referral", "collect_physician", "collect_complaint", "collect_address",
     "collect_contact", "collect_email"}

\* A step of one of the operations in `ops` leaves every field of the record
\* other than the operation's targets and stage as it was.
FrameKept(ops) ==
    (patient_info' # patient_info /\ last'.op \in ops)
       => \A k \in (DOMAIN patient_info \cup DOMAIN patient_info')
                     \ (Targets(last'.op) \cup {"stage"}) :
             /\ k \in DOMAIN patient_info /\ k \in DOMAIN patient_info'
             /\ patient_info'[k] = patient_info[k]

\* C37 as stated: each field-collecting operation, tool or webhook handler,
\* changes only its own target fields and stage; collect-name changes only
\* name.
C37_OnlyOwnFields == [][FrameKept(Collectors)]_vars

\* Every field-collecting operation other than collect-name keeps the frame.
FrameKeptButByCollectName == [][FrameKept(Collectors \ {"collect_name"})]_vars

\* The email question is open: the document on the line gathers for
\* collect-email or leads to one of the two email handlers.
EmailOpen ==
    \/ line.gather = "/voice/collect-email"
    \/ line.next \in {"/voice/retry-email", "/voice/collect-email"}

\* C38: while the email question is open the call cannot end; retry-email
\* answers with a gather for collect-email whose fallback is collect-email
\* too; and every collect-email request, with or without input, stores an
\* email value, sets stage to complete, sets appointment, invokes the dispatch
\* and only then ends the call.
C38_EmailStepCompletes ==
    /\ [](driver = "webhook" /\ EmailOpen => line.next # "hangup")
    /\ [][/\ (line.next = "/voice/retry-email" /\ last'.op = "retry_email")
               => /\ line'.gather = "/voice/collect-email"
                  /\ line'.next = "/voice/collect-email"
                  /\ patient_info' = patient_info
          /\ (EmailOpen /\ last'.op = "collect_email")
               => /\ patient_info'.email # None
                  /\ SpokenIn(last') = EmptyStr => patient_info'.email = EmptyStr
                  /\ patient_info'.stage = "complete"
                  /\ HasAppointment(patient_info')
                  /\ Len(last'.dispatch) = 1
                  /\ line'.gather = "" /\ line'.next = "hangup"]_vars

\* A collect-email request that carried no input completed the call with an
\* empty email.
C38_Witness ==
    /\ driver = "webhook"
    /\ last.op = "collect_email"
    /\ last.args = <<None>>
    /\ line.next = "hangup"
    /\ patient_info.email = EmptyStr
    /\ patient_info.stage = "complete"
    /\ HasAppointment(patient_info)
    /\ Len(last.dispatch) = 1

\* C39 as stated: a collect request whose input is empty and which is
\* answered with a redirect to its retry handler leaves the record as it was,
\* for each of the handlers for name, dob, insurance, insurance-id, referral,
\* physician, complaint, address and contact.
C39_EmptyInputKeepsRecord ==
    [][\A f \in TelephonyFields :
          (/\ f.collect # "collect_email"
           /\ line.gather = f.collect_url
           /\ last'.op = f.collect
           /\ SpokenIn(last') = EmptyStr
           /\ line'.next = f.retry_url)
          => patient_info' = patient_info]_vars

\* The handlers that store their input only once it is known to be non-empty.
StoresAfterTest ==
    {"collect_referral", "collect_complaint", "collect_address", "collect_contact"}

\* The handlers in StoresAfterTest leave the record as it was on empty input.
EmptyInputKeptByStoresAfterTest ==
    [][\A f \in TelephonyFields :
          (/\ f.collect \in StoresAfterTest
           /\ line.gather = f.collect_url
           /\ last'.op = f.collect
           /\ SpokenIn(last') = EmptyStr
           /\ line'.next = f.retry_url)
          => patient_info' = patient_info]_vars

====
